---- MODULE Spec2Model ----
(***************************************************************************)
(* The certificate lifecycle of the KernelSU developers keyring: a GitHub  *)
(* issue tracker is the ledger; handlers issue and revoke certificates by  *)
(* posting comments, setting labels and closing issues; the resolver, the  *)
(* revocation authorizer and the CRL builder derive everything else from   *)
(* the ledger.                                                             *)
(*                                                                         *)
(* Texts (comment bodies, issue bodies, serial numbers) are sequences of   *)
(* atoms: a hex character is one atom, and a fixed phrase of a template    *)
(* ("Serial Number", the issuance marker) is one atom.  Time is counted in *)
(* days.                                                                   *)
(***************************************************************************)
EXTENDS Integers, Sequences, FiniteSets, TLC

VARIABLES issues, events, certs, now, ticks, forged, faults, crl, crlFresh, report

vars == <<issues, events, certs, now, ticks, forged, faults, crl, crlFresh, report>>

----------------------------------------------------------------------------
(* Bounds of the model *)

MaxIssues == 3
MaxTicks == 1
MaxForged == 1
MaxFaults == 1
SerialSpace == 2
MaxAppended == 2
MaxDeliveries == 2

(* Constants of the program *)

ValidityDays == 365
PageSize == 100
BareSerialLen == 32

Users == {"Alice", "bob", "root"}
OrgAdmins == {"root"}

(* The absent text, the absent login and the absent issue number *)
None == <<>>
NoUser == ""
NoIssue == 0

(* The atom of the backtick character *)
BackTick == "BT"

----------------------------------------------------------------------------
(* Texts *)

HexChars == <<"0", "1", "2", "3", "4", "5", "6", "7",
              "8", "9", "a", "b", "c", "d", "e", "f">>

IsHexChar(a) == \E k \in DOMAIN HexChars : HexChars[k] = a

RECURSIVE toHex(_)
toHex(n) ==
  IF n < 16 THEN <<HexChars[n + 1]>>
  ELSE toHex(n \div 16) \o <<HexChars[(n % 16) + 1]>>

generateSerialNumber(r) == toHex(r)

toLowerCase(text) ==
  CASE text = "Alice" -> "alice"
    [] text = "Compromised" -> "compromised"
    [] text = "Lost" -> "lost"
    [] text = "Superseded" -> "superseded"
    [] OTHER -> text

includes(text, q) ==
  \E k \in 0..(Len(text) - Len(q)) : SubSeq(text, k + 1, k + Len(q)) = q

hasAtom(text, a) == \E k \in DOMAIN text : text[k] = a

Min(S) == CHOOSE x \in S : \A y \in S : x <= y
Max(S) == CHOOSE x \in S : \A y \in S : x >= y

(* The capture group of the pattern  KEY .*? BT ([^BT]+) BT  where BT is   *)
(* the backtick: after the leftmost KEY that admits a match, the first     *)
(* backtick opening a non-empty run that the next backtick closes.         *)
(* hexOnly restricts the run to hex characters, [0-9a-fA-F]+.              *)
tickRuns(text, from, hexOnly) ==
  {q \in {x \in from..Len(text) : text[x] = BackTick} :
      \E r \in {x \in (q + 2)..Len(text) : text[x] = BackTick} :
          \A m \in (q + 1)..(r - 1) :
              /\ text[m] # BackTick
              /\ hexOnly => IsHexChar(text[m])}

matchAfter(text, key, hexOnly) ==
  LET ks == {k \in DOMAIN text : text[k] = key}
      runs == IF ks = {} THEN {} ELSE tickRuns(text, Min(ks) + 1, hexOnly)
  IN IF runs = {} THEN None
     ELSE LET q == Min(runs)
              r == Min({x \in (q + 2)..Len(text) : text[x] = BackTick})
          IN SubSeq(text, q + 1, r - 1)

----------------------------------------------------------------------------
(* The templates of the texts the handlers post and the users file *)

FpChars == <<"0:", "1:", "2:", "3:", "4:", "5:", "6:", "7:",
             "8:", "9:", "A:", "B:", "C:", "D:", "E:", "F:">>

hexIndex(a) == CHOOSE k \in DOMAIN HexChars : HexChars[k] = a

(* The digest of a certificate, in upper case with colons: it depends on  *)
(* the subject and the serial number of the certificate.                  *)
getCertificateFingerprint(username, serialNumber) ==
  <<username>> \o [k \in DOMAIN serialNumber |-> FpChars[hexIndex(serialNumber[k])]]

(* The text of a reference to an issue, #n *)
IssueRef == <<"#1", "#2", "#3", "#4", "#5", "#6", "#7", "#8", "#9">>

(* The marker phrase contains hex letters: every text that carries it     *)
(* includes the one-letter text e.                                        *)
IssuedMarker == <<"ISSUED", "e">>

issuanceComment(username, serialNumber, fingerprint) ==
  IssuedMarker \o <<"User", username, "SN", BackTick>> \o serialNumber
    \o <<BackTick, "FP", BackTick>> \o fingerprint \o <<BackTick>>

rejectionComment(serialNumber, fingerprint, issueNumber) ==
  <<"REJECTED", "SN", BackTick>> \o serialNumber \o <<BackTick, "FP", BackTick>>
    \o (IF fingerprint = None THEN <<"N/A">> ELSE fingerprint)
    \o <<BackTick, IssueRef[issueNumber]>>

(* The report with the rank of the author, then the approval *)
approvalComment(level) == <<"REPORT", level, "CHECK", "Auto-Approved">>
fallbackApprovalComment ==
  <<"WARN", "Unable to fetch your GitHub profile statistics",
    "approved without rank evaluation">>
verifyNoticeComment == <<"NOTE", "Unable to fully verify">>

(* The comments of autoEvaluateDeveloper of src/keyring.js: the report    *)
(* with the rank and the action, then the text of the outcome             *)
generateReport(evaluation) == <<"REPORT", evaluation.level, evaluation.action>>
rejectedReportComment(evaluation) ==
  generateReport(evaluation) \o <<"Certificate Request Rejected">>
manualReviewComment(evaluation) ==
  generateReport(evaluation) \o <<"Manual Review Required">>
unableToEvaluateComment == <<"WARN", "Unable to automatically evaluate your profile">>
noKeyComment == <<"WARN", "Unable to extract valid public key">>
issueFailedComment(message) == <<"FAILED", "Failed to issue certificate">> \o message

revokedComment(serialNumber, requester, actualOwner, issueNumber, isOwner) ==
  <<"CHECK", "Certificate Revoked Successfully", "SN", BackTick>> \o serialNumber
    \o <<BackTick, "By", requester>>
    \o (IF isOwner THEN <<>> ELSE <<"(Organization Admin)">>)
    \o (IF actualOwner # NoUser /\ ~isOwner THEN <<"Owner", actualOwner>> ELSE <<>>)
    \o (IF issueNumber # NoIssue THEN <<IssueRef[issueNumber]>> ELSE <<>>)

deniedComment(requester, actualOwner, issueNumber) ==
  <<"DENIED", requester>>
    \o (IF actualOwner # NoUser THEN <<"Owner", actualOwner, IssueRef[issueNumber]>>
        ELSE <<"Certificate not found or already revoked">>)

noSerialComment == <<"FAILED", "Unable to extract certificate serial number">>
systemErrorComment == <<"FAILED", "System Error">>

(* What a user writes into the body of a [revoke] issue: free text, or    *)
(* the line of the portal's template that names a serial number.          *)
revokeBody(typed) ==
  IF typed = None THEN <<"please revoke">>
  ELSE <<"SN", BackTick>> \o typed \o <<BackTick>>

(* The body of a [revoke] issue filed from the issue template: the serial *)
(* number, then the section of the reason with the word the user gives.   *)
revokeBodyWithReason(typed, word) ==
  revokeBody(typed) \o <<"### Revocation Reason", word>>

(* The words of the portal's list of reasons, and words a user types *)
ReasonWords == {"Compromised", "Lost", "Superseded", "other", "constructor", "__proto__"}

(* A comment a user writes that imitates the issuance comment *)
imitationComment(serialNumber) ==
  IssuedMarker \o <<"SN", BackTick>> \o serialNumber \o <<BackTick>>

Serials == {generateSerialNumber(r) : r \in 0..(SerialSpace - 1)}

(* The serial texts a requester types: an issued-looking serial, or a     *)
(* short hex text that is no serial number of the sample.                 *)
TypedSerials == Serials \cup {<<"e">>}

----------------------------------------------------------------------------
(* The ledger: issues and their comments, and the queries over them *)

IssueNumbers == 1..Len(issues)

(* The members of a set of issue numbers, the greatest first *)
SeqDesc(S) ==
  LET hi == IF S = {} THEN 0 ELSE Max(S)
  IN SelectSeq([i \in 1..hi |-> hi + 1 - i], LAMBDA n : n \in S)

firstN(seq, n) == SubSeq(seq, 1, IF Len(seq) < n THEN Len(seq) ELSE n)

(* issues(first: 100, filterBy: {createdBy, states: CLOSED, labels},      *)
(* orderBy: CREATED_AT DESC): issue numbers grow with the creation time.  *)
queryIssues(ledger, label, createdBy) ==
  firstN(SeqDesc({n \in 1..Len(ledger) :
                    /\ ledger[n].state = "closed"
                    /\ label \in ledger[n].labels
                    /\ createdBy # NoUser =>
                          toLowerCase(ledger[n].author) = toLowerCase(createdBy)}),
         PageSize)

titleIncludes(ledger, n, tag) == ledger[n].tag = tag

commentsOf(ledger, n) == firstN(ledger[n].comments, PageSize)

fetchUserCertificateIssues(ledger, username) ==
  [keyringIssues |-> queryIssues(ledger, "approved", username),
   revokeIssues |-> queryIssues(ledger, "revoked", username)]

isIssuanceComment(c) ==
  /\ includes(c.body, IssuedMarker)
  /\ hasAtom(c.body, "SN")

(* The validity period taken one day too long *)
certInfoOfLongYear(c) ==
  LET serialNumber == matchAfter(c.body, "SN", FALSE)
      fingerprint == matchAfter(c.body, "FP", FALSE)
  IN IF serialNumber = None THEN None
     ELSE [serialNumber |-> serialNumber,
           fingerprint |-> fingerprint,
           issuedAt |-> c.createdAt,
           expiresAt |-> c.createdAt + ValidityDays + 1]

certInfoOf(c) ==
  LET serialNumber == matchAfter(c.body, "SN", FALSE)
      fingerprint == matchAfter(c.body, "FP", FALSE)
  IN IF serialNumber = None THEN None
     ELSE [serialNumber |-> serialNumber,
           fingerprint |-> fingerprint,
           issuedAt |-> c.createdAt,
           expiresAt |-> c.createdAt + ValidityDays]

(* comments.find(...): the first issuance comment in thread order *)
extractCertificateInfo(comments) ==
  LET ks == {k \in DOMAIN comments : isIssuanceComment(comments[k])}
  IN IF ks = {} THEN None ELSE certInfoOf(comments[Min(ks)])

isCertificateRevoked(ledger, serialNumber, revokeIssues) ==
  \E k \in DOMAIN revokeIssues :
      /\ titleIncludes(ledger, revokeIssues[k], "revoke")
      /\ includes(ledger[revokeIssues[k]].body, serialNumber)

(* The loop without its return at the first active certificate *)
RECURSIVE scanAllCertificates(_, _, _, _)
scanAllCertificates(ledger, keyringIssues, revokeIssues, t) ==
  IF keyringIssues = <<>> THEN <<>>
  ELSE LET n == Head(keyringIssues)
           certInfo == extractCertificateInfo(commentsOf(ledger, n))
           rest == scanAllCertificates(ledger, Tail(keyringIssues), revokeIssues, t)
       IN IF certInfo = None
            THEN rest
          ELSE IF t > certInfo.expiresAt
            THEN <<[issueNumber |-> n, certificate |-> certInfo, status |-> "expired"]>> \o rest
          ELSE IF isCertificateRevoked(ledger, certInfo.serialNumber, revokeIssues)
            THEN <<[issueNumber |-> n, certificate |-> certInfo, status |-> "revoked"]>> \o rest
          ELSE <<[issueNumber |-> n, certificate |-> certInfo, status |-> "active"]>> \o rest

(* The loop of checkExistingCertificate over the keyring issues, newest   *)
(* first: the classification of each issue it visits.  It returns at the  *)
(* first active certificate.                                              *)
RECURSIVE scanCertificates(_, _, _, _)
scanCertificates(ledger, keyringIssues, revokeIssues, t) ==
  IF keyringIssues = <<>> THEN <<>>
  ELSE LET n == Head(keyringIssues)
           certInfo == extractCertificateInfo(commentsOf(ledger, n))
           rest == scanCertificates(ledger, Tail(keyringIssues), revokeIssues, t)
       IN IF certInfo = None
            THEN rest
          ELSE IF t > certInfo.expiresAt
            THEN <<[issueNumber |-> n, certificate |-> certInfo, status |-> "expired"]>> \o rest
          ELSE IF isCertificateRevoked(ledger, certInfo.serialNumber, revokeIssues)
            THEN <<[issueNumber |-> n, certificate |-> certInfo, status |-> "revoked"]>> \o rest
          ELSE <<[issueNumber |-> n, certificate |-> certInfo, status |-> "active"]>>

validKeyringIssues(ledger, keyringIssues) ==
  SelectSeq(keyringIssues, LAMBDA n : titleIncludes(ledger, n, "keyring"))

NoCertificate == [hasActiveCert |-> FALSE, certificate |-> None,
                  issueNumber |-> NoIssue, error |-> FALSE]

(* The check with a catch block that returns no error *)
checkExistingCertificateSilent(ledger, username, t, ledgerOk) ==
  IF ~ledgerOk THEN NoCertificate
  ELSE LET fetched == fetchUserCertificateIssues(ledger, username)
           scan == scanCertificates(ledger,
                                    validKeyringIssues(ledger, fetched.keyringIssues),
                                    fetched.revokeIssues, t)
           actives == SelectSeq(scan, LAMBDA e : e.status = "active")
       IN IF actives = <<>> THEN NoCertificate
          ELSE [hasActiveCert |-> TRUE,
                certificate |-> actives[1].certificate,
                issueNumber |-> actives[1].issueNumber,
                error |-> FALSE]

(* ledgerOk = FALSE: the GraphQL query of fetchUserCertificateIssues fails *)
checkExistingCertificate(ledger, username, t, ledgerOk) ==
  IF ~ledgerOk THEN [NoCertificate EXCEPT !.error = TRUE]
  ELSE LET fetched == fetchUserCertificateIssues(ledger, username)
           scan == scanCertificates(ledger,
                                    validKeyringIssues(ledger, fetched.keyringIssues),
                                    fetched.revokeIssues, t)
           actives == SelectSeq(scan, LAMBDA e : e.status = "active")
       IN IF actives = <<>> THEN NoCertificate
          ELSE [hasActiveCert |-> TRUE,
                certificate |-> actives[1].certificate,
                issueNumber |-> actives[1].issueNumber,
                error |-> FALSE]

(* The records the resolver classifies as active for username *)
resolveActive(ledger, username, t) ==
  LET fetched == fetchUserCertificateIssues(ledger, username)
  IN SelectSeq(scanCertificates(ledger,
                                validKeyringIssues(ledger, fetched.keyringIssues),
                                fetched.revokeIssues, t),
               LAMBDA e : e.status = "active")

(* The count that takes a record for expired from the instant expiresAt *)
RECURSIVE countCertificatesEarlyExpiry(_, _, _, _)
countCertificatesEarlyExpiry(ledger, keyringIssues, revokeIssues, t) ==
  IF keyringIssues = <<>> THEN [total |-> 0, active |-> 0, expired |-> 0, revoked |-> 0]
  ELSE LET n == Head(keyringIssues)
           certInfo == extractCertificateInfo(commentsOf(ledger, n))
           rest == countCertificatesEarlyExpiry(ledger, Tail(keyringIssues), revokeIssues, t)
       IN IF certInfo = None THEN rest
          ELSE IF isCertificateRevoked(ledger, certInfo.serialNumber, revokeIssues)
            THEN [rest EXCEPT !.total = @ + 1, !.revoked = @ + 1]
          ELSE IF t >= certInfo.expiresAt
            THEN [rest EXCEPT !.total = @ + 1, !.expired = @ + 1]
          ELSE [rest EXCEPT !.total = @ + 1, !.active = @ + 1]

RECURSIVE countCertificates(_, _, _, _)
countCertificates(ledger, keyringIssues, revokeIssues, t) ==
  IF keyringIssues = <<>> THEN [total |-> 0, active |-> 0, expired |-> 0, revoked |-> 0]
  ELSE LET n == Head(keyringIssues)
           certInfo == extractCertificateInfo(commentsOf(ledger, n))
           rest == countCertificates(ledger, Tail(keyringIssues), revokeIssues, t)
       IN IF certInfo = None THEN rest
          ELSE IF isCertificateRevoked(ledger, certInfo.serialNumber, revokeIssues)
            THEN [rest EXCEPT !.total = @ + 1, !.revoked = @ + 1]
          ELSE IF t > certInfo.expiresAt
            THEN [rest EXCEPT !.total = @ + 1, !.expired = @ + 1]
          ELSE [rest EXCEPT !.total = @ + 1, !.active = @ + 1]

getCertificateStatistics(ledger, username, t) ==
  LET fetched == fetchUserCertificateIssues(ledger, username)
  IN countCertificates(ledger, validKeyringIssues(ledger, fetched.keyringIssues),
                       fetched.revokeIssues, t)

(* The statuses getCertificateStatistics gives the keyring issues of      *)
(* username that carry a certificate                                      *)
statisticsStatus(ledger, username, n, t) ==
  LET fetched == fetchUserCertificateIssues(ledger, username)
      certInfo == extractCertificateInfo(commentsOf(ledger, n))
  IN IF isCertificateRevoked(ledger, certInfo.serialNumber, fetched.revokeIssues)
       THEN "revoked"
     ELSE IF t > certInfo.expiresAt THEN "expired"
     ELSE "active"

----------------------------------------------------------------------------
(* The revocation authorizer *)

ownershipComment(c, serialNumber) ==
  /\ includes(c.body, IssuedMarker)
  /\ includes(c.body, serialNumber)

RECURSIVE findOwner(_, _, _, _)
findOwner(ledger, approved, serialNumber, username) ==
  IF approved = <<>> THEN [isOwner |-> FALSE, actualOwner |-> NoUser, issueNumber |-> NoIssue]
  ELSE LET n == Head(approved)
           comments == commentsOf(ledger, n)
       IN IF /\ titleIncludes(ledger, n, "keyring")
             /\ \E k \in DOMAIN comments : ownershipComment(comments[k], serialNumber)
            THEN [isOwner |-> toLowerCase(ledger[n].author) = toLowerCase(username),
                  actualOwner |-> ledger[n].author,
                  issueNumber |-> n]
          ELSE findOwner(ledger, Tail(approved), serialNumber, username)

verifyCertificateOwnership(ledger, serialNumber, username) ==
  findOwner(ledger, queryIssues(ledger, "approved", NoUser), serialNumber, username)

(* issue.author.login of the issue found, read when the author is null:  *)
(* the account of the author has been deleted.                            *)
ownershipThrows(ownership) ==
  ownership.issueNumber # NoIssue /\ ownership.actualOwner = NoUser

(* The check with a catch block that returns true *)
isOrgAdminFailOpen(username, lookupOk) ==
  IF lookupOk THEN username \in OrgAdmins ELSE TRUE

(* orgs.getMembershipForUser: role = admin; a failed lookup gives false *)
isOrgAdmin(username, lookupOk) ==
  IF lookupOk THEN username \in OrgAdmins ELSE FALSE

hexRunEnd(text, k) ==
  Max({r \in k..Len(text) : \A m \in k..r : IsHexChar(text[m])})

(* The three patterns of extractSerialNumber, tried in order: a serial in *)
(* backticks after "Serial Number"; the line "serial_number: x" of the    *)
(* issue template; a free-standing hex word of 32 characters or more.     *)
extractSerialNumber(issueBody) ==
  IF issueBody = None THEN None
  ELSE LET match1 == matchAfter(issueBody, "SN", TRUE)
           ks2 == {k \in 1..(Len(issueBody) - 1) :
                      issueBody[k] = "serial_number:" /\ IsHexChar(issueBody[k + 1])}
           ks3 == {k \in DOMAIN issueBody :
                      /\ IsHexChar(issueBody[k])
                      /\ (k = 1 \/ ~IsHexChar(issueBody[k - 1]))
                      /\ hexRunEnd(issueBody, k) - k + 1 >= BareSerialLen}
       IN IF match1 # None THEN match1
          ELSE IF ks2 # {}
            THEN SubSeq(issueBody, Min(ks2) + 1, hexRunEnd(issueBody, Min(ks2) + 1))
          ELSE IF ks3 # {}
            THEN SubSeq(issueBody, Min(ks3), hexRunEnd(issueBody, Min(ks3)))
          ELSE None

----------------------------------------------------------------------------
(* The CRL builder *)

extractCertificateInfoFromComments(comments) ==
  LET ks == {k \in DOMAIN comments : isIssuanceComment(comments[k])}
  IN IF ks = {} THEN None
     ELSE LET info == certInfoOf(comments[Max(ks)])
          IN IF info = None THEN None
             ELSE [serialNumber |-> info.serialNumber,
                   fingerprint |-> info.fingerprint,
                   issuedAt |-> info.issuedAt]

extractSerialNumberFromBody(body) == extractSerialNumber(body)

(* reasonMap[reason] || 'unspecified': reasonMap is an object literal, so  *)
(* the lookup of a name also finds what the object inherits from          *)
(* Object.prototype: its constructor, a function, and its prototype, an   *)
(* object.  Both are truthy and are returned as they are.                 *)
mapRevocationReason(reason) ==
  CASE reason = "compromised" -> "keyCompromise"
    [] reason = "lost" -> "keyCompromise"
    [] reason = "superseded" -> "superseded"
    [] reason = "other" -> "unspecified"
    [] reason = "constructor" -> "[Function: Object]"
    [] reason = "__proto__" -> "[Object: null prototype] {}"
    [] OTHER -> "unspecified"

extractRevocationReason(body) ==
  LET ks1 == {k \in 1..(Len(body) - 1) : body[k] = "### Revocation Reason"}
      ks2 == {k \in 1..(Len(body) - 1) : body[k] = "reason:"}
  IN IF ks1 # {} THEN mapRevocationReason(toLowerCase(body[Min(ks1) + 1]))
     ELSE IF ks2 # {} THEN mapRevocationReason(toLowerCase(body[Min(ks2) + 1]))
     ELSE "unspecified"

(* issuedCertificates: the Map of the serial numbers to their records;    *)
(* set() replaces the record of a serial number that is already there.    *)
RECURSIVE issuedCertificates(_, _, _)
issuedCertificates(ledger, approvedIssues, map) ==
  IF approvedIssues = <<>> THEN map
  ELSE LET n == Head(approvedIssues)
           certInfo == extractCertificateInfoFromComments(commentsOf(ledger, n))
       IN IF ~titleIncludes(ledger, n, "keyring") \/ certInfo = None
            THEN issuedCertificates(ledger, Tail(approvedIssues), map)
          ELSE issuedCertificates(ledger, Tail(approvedIssues),
                 [x \in DOMAIN map \cup {certInfo.serialNumber} |->
                    IF x = certInfo.serialNumber
                      THEN [serialNumber |-> certInfo.serialNumber,
                            fingerprint |-> certInfo.fingerprint,
                            owner |-> ledger[n].author,
                            issuedAt |-> certInfo.issuedAt,
                            issueNumber |-> n]
                    ELSE map[x]])

isRevokedComment(c) ==
  /\ hasAtom(c.body, "CHECK")
  /\ hasAtom(c.body, "Certificate Revoked Successfully")

(* The loop without its test of the serial numbers already listed *)
RECURSIVE revokedCertificatesAll(_, _, _, _)
revokedCertificatesAll(ledger, revokedIssues, issued, list) ==
  IF revokedIssues = <<>> THEN list
  ELSE IF Len(revokedIssues) > 1
    THEN LET h == Len(revokedIssues) \div 2
             done == revokedCertificatesAll(ledger, SubSeq(revokedIssues, 1, h), issued, list)
         IN IF Len(done) >= 0
              THEN revokedCertificatesAll(ledger,
                                          SubSeq(revokedIssues, h + 1, Len(revokedIssues)),
                                          issued, done)
            ELSE done
  ELSE LET n == Head(revokedIssues)
           serialNumber == extractSerialNumberFromBody(ledger[n].body)
           comments == commentsOf(ledger, n)
           ks == {k \in DOMAIN comments : isRevokedComment(comments[k])}
           known == serialNumber \in DOMAIN issued
       IN IF ~titleIncludes(ledger, n, "revoke") \/ serialNumber = None
            THEN list
          ELSE Append(list,
                   [serialNumber |-> serialNumber,
                    fingerprint |-> IF known THEN issued[serialNumber].fingerprint ELSE None,
                    owner |-> IF known THEN issued[serialNumber].owner ELSE ledger[n].author,
                    revokedAt |-> IF ks # {} THEN comments[Min(ks)].createdAt
                                  ELSE ledger[n].closedAt,
                    reason |-> extractRevocationReason(ledger[n].body),
                    revokeIssueNumber |-> n,
                    originalIssueNumber |-> IF known THEN issued[serialNumber].issueNumber
                                            ELSE NoIssue])

(* The loop over revokedIssues, in their order: the list after the first  *)
(* half of them is built, and the second half starts from it.             *)
RECURSIVE revokedCertificates(_, _, _, _)
revokedCertificates(ledger, revokedIssues, issued, list) ==
  IF revokedIssues = <<>> THEN list
  ELSE IF Len(revokedIssues) > 1
    THEN LET h == Len(revokedIssues) \div 2
             done == revokedCertificates(ledger, SubSeq(revokedIssues, 1, h), issued, list)
         IN IF Len(done) >= 0
              THEN revokedCertificates(ledger,
                                       SubSeq(revokedIssues, h + 1, Len(revokedIssues)),
                                       issued, done)
            ELSE done
  ELSE LET n == Head(revokedIssues)
           serialNumber == extractSerialNumberFromBody(ledger[n].body)
           comments == commentsOf(ledger, n)
           ks == {k \in DOMAIN comments : isRevokedComment(comments[k])}
           known == serialNumber \in DOMAIN issued
       IN IF \/ ~titleIncludes(ledger, n, "revoke")
             \/ serialNumber = None
             \/ \E k \in DOMAIN list : list[k].serialNumber = serialNumber
            THEN list
          ELSE Append(list,
                   [serialNumber |-> serialNumber,
                    fingerprint |-> IF known THEN issued[serialNumber].fingerprint ELSE None,
                    owner |-> IF known THEN issued[serialNumber].owner ELSE ledger[n].author,
                    revokedAt |-> IF ks # {} THEN comments[Min(ks)].createdAt
                                  ELSE ledger[n].closedAt,
                    reason |-> extractRevocationReason(ledger[n].body),
                    revokeIssueNumber |-> n,
                    originalIssueNumber |-> IF known THEN issued[serialNumber].issueNumber
                                            ELSE NoIssue])

(* Array.sort with (a, b) => b.revokedAt - a.revokedAt: stable, descending. *)
(* insertSorted puts the entries x, in their order, into a sorted list,   *)
(* each behind the entries that are not older than it.                    *)
RECURSIVE insertSorted(_, _)
insertSorted(sorted, list) ==
  IF list = <<>> THEN sorted
  ELSE IF Len(list) > 1
    THEN LET h == Len(list) \div 2
             done == insertSorted(sorted, SubSeq(list, 1, h))
         IN IF Len(done) >= 0 THEN insertSorted(done, SubSeq(list, h + 1, Len(list)))
            ELSE done
  ELSE LET x == list[1]
           k == Cardinality({j \in DOMAIN sorted : sorted[j].revokedAt >= x.revokedAt})
       IN SubSeq(sorted, 1, k) \o <<x>> \o SubSeq(sorted, k + 1, Len(sorted))

(* The sort with the comparison turned round: a.revokedAt - b.revokedAt *)
sortByRevokedAtAscending(list) ==
  LET sorted == insertSorted(<<>>, list)
  IN [k \in DOMAIN sorted |-> sorted[Len(sorted) + 1 - k]]

sortByRevokedAt(list) == insertSorted(<<>>, list)

(* The queries without the filter of the label revoked *)
fetchAllIssuesClosed(ledger) ==
  [approvedIssues |-> queryIssues(ledger, "approved", NoUser),
   revokedIssues |-> SeqDesc({n \in 1..Len(ledger) : ledger[n].state = "closed"})]

fetchAllIssues(ledger) ==
  [approvedIssues |-> queryIssues(ledger, "approved", NoUser),
   revokedIssues |-> queryIssues(ledger, "revoked", NoUser)]

(* The build that stamps every entry with the time of the build *)
generateCRLStamped(ledger, t) ==
  LET fetched == fetchAllIssues(ledger)
      issued == issuedCertificates(ledger, fetched.approvedIssues, <<>>)
      revoked == revokedCertificates(ledger, fetched.revokedIssues, issued, <<>>)
  IN [version |-> "1.0",
      generatedAt |-> t,
      issuer |-> "KernelSU Module Developers",
      totalIssued |-> Cardinality(DOMAIN issued),
      totalRevoked |-> Len(revoked),
      revokedCertificates |->
        sortByRevokedAt([k \in DOMAIN revoked |-> [revoked[k] EXCEPT !.revokedAt = t]])]

generateCRL(ledger, t) ==
  LET fetched == fetchAllIssues(ledger)
      issued == issuedCertificates(ledger, fetched.approvedIssues, <<>>)
      revoked == revokedCertificates(ledger, fetched.revokedIssues, issued, <<>>)
  IN [version |-> "1.0",
      generatedAt |-> t,
      issuer |-> "KernelSU Module Developers",
      totalIssued |-> Cardinality(DOMAIN issued),
      totalRevoked |-> Len(revoked),
      revokedCertificates |-> sortByRevokedAt(revoked)]

(* issue.author.login read on an issue whose author is null: for a       *)
(* keyring issue with a certificate, and for a revoke issue listed with   *)
(* the author of the issue as owner, its serial number not being among    *)
(* the issued ones.                                                       *)
carriesCertificate(ledger, n) ==
  /\ titleIncludes(ledger, n, "keyring")
  /\ extractCertificateInfoFromComments(commentsOf(ledger, n)) # None

authorRead(ledger, built) ==
  /\ \E n \in 1..Len(ledger) : ledger[n].author = NoUser
  /\ \/ SelectSeq(fetchAllIssues(ledger).approvedIssues,
                  LAMBDA n : ledger[n].author = NoUser /\ carriesCertificate(ledger, n)) # <<>>
     \/ SelectSeq(built.revokedCertificates, LAMBDA e : e.owner = NoUser) # <<>>

(* The calls of updateAndCommitCRL after generateCRL: the write of        *)
(* crl.json and the git commands                                          *)
UpdateCalls == {"writeFileSync", "execSync"}

(* The catch block that lets the list it has built stand as published *)
publishOnFailure(ledger, published, built, failing) ==
  IF failing = "graphql" \/ failing \in UpdateCalls \/ authorRead(ledger, built)
    THEN [crl |-> built, updated |-> FALSE, error |-> TRUE]
  ELSE [crl |-> built, updated |-> built # published, error |-> FALSE]

(* What updateAndCommitCRL returns and the crl.json of the repository     *)
(* after it.  A failed read of the ledger, a failed write of the file     *)
(* and a failed git command end in the catch block: nothing is pushed.    *)
(* git status finds no change when the file written equals the one        *)
(* committed; otherwise the file is committed and pushed.                 *)
publish(ledger, published, built, failing) ==
  IF failing = "graphql" \/ failing \in UpdateCalls \/ authorRead(ledger, built)
    THEN [crl |-> published, updated |-> FALSE, error |-> TRUE]
  ELSE [crl |-> built, updated |-> built # published, error |-> FALSE]

(* updateAndCommitCRL: the list built on the ledger is published *)
updateAndCommitCRL(ledger, published, t, failing) ==
  publish(ledger, published, generateCRL(ledger, t), failing)

NoCRL == [version |-> "none", generatedAt |-> 0, issuer |-> "", totalIssued |-> 0,
          totalRevoked |-> 0, revokedCertificates |-> <<>>]

----------------------------------------------------------------------------
(* The writes to the ledger (github-utils) *)

createComment(ledger, n, body, t) ==
  [ledger EXCEPT ![n].comments =
     Append(@, [body |-> body, author |-> "bot", createdAt |-> t])]

setLabel(ledger, n, label) == [ledger EXCEPT ![n].labels = {label}]

addLabel(ledger, n, label) == [ledger EXCEPT ![n].labels = @ \cup {label}]

removeLabel(ledger, n, label) == [ledger EXCEPT ![n].labels = @ \ {label}]

closeIssue(ledger, n, isCompleted, t) ==
  [ledger EXCEPT ![n].state = "closed",
                 ![n].reason = IF isCompleted THEN "completed" ELSE "not_planned",
                 ![n].closedAt = IF ledger[n].state = "closed" THEN @ ELSE t,
                 ![n].locked = TRUE]

(* updateIssue: state and state_reason, nothing else *)
updateIssue(ledger, n, state, stateReason, t) ==
  [ledger EXCEPT ![n].state = state,
                 ![n].reason = stateReason,
                 ![n].closedAt = IF state = "closed" /\ ledger[n].state # "closed"
                                   THEN t ELSE @]

----------------------------------------------------------------------------
(* The certificate issuer *)

KeyKinds == {"P-256", "P-384", "secp256k1", "rsa", "malformed", "none"}

(* crypto.createPublicKey: the type of the key it parses *)
asymmetricKeyType(key) == IF key = "rsa" THEN "rsa" ELSE "ec"

supportedCurves == {"P-256", "P-384"}

(* The checks without the one of the curve *)
certificateErrorAnyCurve(key, caOk) ==
  IF ~caOk THEN <<"Middle CA not found">>
  ELSE IF key = "malformed" THEN <<"Invalid public key format">>
  ELSE IF asymmetricKeyType(key) # "ec" THEN <<"Unsupported key type">>
  ELSE None

(* The message of the error issueDeveloperCertificate throws, None when   *)
(* it issues.  caOk = FALSE: MIDDLE_CA_CERT or MIDDLE_CA_KEY is not set.  *)
certificateError(key, caOk) ==
  IF ~caOk THEN <<"Middle CA not found">>
  ELSE IF key = "malformed" THEN <<"Invalid public key format">>
  ELSE IF asymmetricKeyType(key) # "ec" THEN <<"Unsupported key type">>
  ELSE IF key \notin supportedCurves THEN <<"Unsupported ECC curve">>
  ELSE None

issueDeveloperCertificate(username, r, t, n) ==
  [serialNumber |-> generateSerialNumber(r),
   fingerprint |-> getCertificateFingerprint(username, generateSerialNumber(r)),
   subject |-> username,
   notBefore |-> t,
   notAfter |-> t + ValidityDays,
   issueNumber |-> n]

----------------------------------------------------------------------------
(* The rank of a developer (rank.js) *)

(* The percentiles, in thousandths of a percent, up to which a level reaches *)
RANK_THRESHOLDS ==
  <<[level |-> "S", threshold |-> 1000], [level |-> "A+", threshold |-> 12500],
    [level |-> "A", threshold |-> 25000], [level |-> "A-", threshold |-> 37500],
    [level |-> "B+", threshold |-> 50000], [level |-> "B", threshold |-> 62500],
    [level |-> "B-", threshold |-> 75000], [level |-> "C+", threshold |-> 87500],
    [level |-> "C", threshold |-> 100000]>>

rankLevel(percentile) ==
  LET ks == {k \in DOMAIN RANK_THRESHOLDS : percentile <= RANK_THRESHOLDS[k].threshold}
  IN IF ks = {} THEN "C" ELSE RANK_THRESHOLDS[Min(ks)].level

(* parseFloat(percentile.toFixed(2)): the nearest hundredth of a percent *)
toFixed2(percentile) == ((percentile + 5) \div 10) * 10

(* calculateRank, from the percentile of the score: the level is that of *)
(* the percentile, the percentile reported is rounded                    *)
calculateRank(percentile) ==
  [percentile |-> toFixed2(percentile), level |-> rankLevel(percentile)]

(* evaluateUser, on the percentile of the score of the statistics *)
evaluateUser(percentile) ==
  [action |-> IF calculateRank(percentile).percentile <= 25000 THEN "auto_approve"
              ELSE IF calculateRank(percentile).percentile > 75000 THEN "auto_reject"
              ELSE "manual_review",
   level |-> calculateRank(percentile).level]

(* The percentiles of the authors: one of each action of evaluateUser.   *)
(* NoStats: fetchUserStats throws.                                        *)
Percentiles == {10000, 50000, 90000}
NoStats == -1
RegularStats == 10000

(* Percentiles of every level, and those next to the bounds of 25 and 75 *)
RankSamples ==
  {500, 1000, 10000, 25000, 25004, 25005, 30000, 45000, 60000,
   74996, 75000, 75004, 75005, 80000, 90000, 100000}

----------------------------------------------------------------------------
(* A run of a handler: the ledger as the calls of the run have left it,   *)
(* and whether a call has thrown.  failing names the ledger call that     *)
(* throws whenever the run makes it, NoCall when every call succeeds.     *)

Calls == {"graphql", "getMembershipForUser", "createComment", "addLabel",
          "setLabel", "removeLabel", "closeIssue"}
NoCall == "none"

(* generateCRL throws on the ledger: updateAndCommitCRL reports an error *)
generateCRLThrows(ledger) == updateAndCommitCRL(ledger, NoCRL, 0, NoCall).error

started(ledger) == [ledger |-> ledger, threw |-> FALSE]

thrown(run) == [run EXCEPT !.threw = TRUE]

caught(run) == [run EXCEPT !.threw = FALSE]

(* await of one call: skipped once the run has thrown *)
await(run, name, failing, after) ==
  IF run.threw THEN run
  ELSE IF failing = name THEN thrown(run)
  ELSE [run EXCEPT !.ledger = after]

awaitCreateComment(run, n, body, t, failing) ==
  await(run, "createComment", failing, createComment(run.ledger, n, body, t))

awaitSetLabel(run, n, label, failing) ==
  await(run, "setLabel", failing, setLabel(run.ledger, n, label))

awaitAddLabel(run, n, label, failing) ==
  await(run, "addLabel", failing, addLabel(run.ledger, n, label))

awaitRemoveLabel(run, n, label, failing) ==
  await(run, "removeLabel", failing, removeLabel(run.ledger, n, label))

awaitCloseIssue(run, n, isCompleted, t, failing) ==
  await(run, "closeIssue", failing, closeIssue(run.ledger, n, isCompleted, t))

awaitUpdateIssue(run, n, state, stateReason, t, failing) ==
  await(run, "updateIssue", failing, updateIssue(run.ledger, n, state, stateReason, t))

----------------------------------------------------------------------------
(* The handlers: what one run does to the ledger *)

(* handleKeyringIssue, action = opened, the user has an active certificate *)
rejectDuplicate(run, n, existingCert, t, failing) ==
  awaitCloseIssue(
    awaitSetLabel(
      awaitCreateComment(run, n,
        rejectionComment(existingCert.certificate.serialNumber,
                         existingCert.certificate.fingerprint,
                         existingCert.issueNumber), t, failing),
      n, "duplicate", failing),
    n, FALSE, t, failing)

(* autoEvaluateDeveloper with the outcome following evaluation.action *)
autoEvaluateDeveloperGated(run, n, stats, t, failing) ==
  LET approved == stats = NoStats \/ evaluateUser(stats).action = "auto_approve"
      commented == awaitCreateComment(run, n,
                     IF stats = NoStats THEN fallbackApprovalComment
                     ELSE approvalComment(evaluateUser(stats).level), t, failing)
  IN IF approved THEN awaitAddLabel(commented, n, "approved", failing)
     ELSE commented

(* autoEvaluateDeveloper: the try block posts the report and approves;   *)
(* the catch block approves without the rank.                            *)
autoEvaluateDeveloper(run, n, stats, t, failing) ==
  LET tried == IF stats = NoStats THEN thrown(run)
               ELSE awaitAddLabel(
                      awaitCreateComment(run, n,
                        approvalComment(evaluateUser(stats).level), t, failing),
                      n, "approved", failing)
  IN IF run.threw THEN run
     ELSE IF ~tried.threw THEN tried
     ELSE awaitAddLabel(
            awaitCreateComment(caught(tried), n, fallbackApprovalComment, t, failing),
            n, "approved", failing)

(* The opened branch without the return that follows the rejection *)
keyringOpenedNoReturn(ledger, n, stats, t, failing) ==
  LET existingCert == checkExistingCertificate(ledger, ledger[n].author, t,
                                               failing # "graphql")
      run == started(ledger)
  IN IF existingCert.hasActiveCert
       THEN autoEvaluateDeveloper(rejectDuplicate(run, n, existingCert, t, failing),
                                  n, stats, t, failing)
     ELSE IF existingCert.error
       THEN autoEvaluateDeveloper(
              awaitCreateComment(run, n, verifyNoticeComment, t, failing),
              n, stats, t, failing)
     ELSE autoEvaluateDeveloper(run, n, stats, t, failing)

(* handleKeyringIssue, action = opened.  Its catch block writes nothing   *)
(* to the ledger.                                                         *)
keyringOpened(ledger, n, stats, t, failing) ==
  LET existingCert == checkExistingCertificate(ledger, ledger[n].author, t,
                                               failing # "graphql")
      run == started(ledger)
  IN IF existingCert.hasActiveCert THEN rejectDuplicate(run, n, existingCert, t, failing)
     ELSE IF existingCert.error
       THEN autoEvaluateDeveloper(
              awaitCreateComment(run, n, verifyNoticeComment, t, failing),
              n, stats, t, failing)
     ELSE autoEvaluateDeveloper(run, n, stats, t, failing)

(* autoEvaluateDeveloper of src/keyring.js: the outcome follows the      *)
(* action of evaluateUser; the catch block posts a comment, no label      *)
autoEvaluateDeveloperByRank(run, n, stats, t, failing) ==
  LET evaluation == evaluateUser(stats)
      tried ==
        IF stats = NoStats THEN thrown(run)
        ELSE IF evaluation.action = "auto_approve"
          THEN awaitAddLabel(
                 awaitCreateComment(run, n, generateReport(evaluation), t, failing),
                 n, "approved", failing)
        ELSE IF evaluation.action = "auto_reject"
          THEN awaitUpdateIssue(
                 awaitAddLabel(
                   awaitCreateComment(run, n, rejectedReportComment(evaluation),
                                      t, failing),
                   n, "rejected", failing),
                 n, "closed", "not_planned", t, failing)
        ELSE awaitCreateComment(run, n, manualReviewComment(evaluation), t, failing)
  IN IF ~tried.threw THEN tried
     ELSE awaitCreateComment(caught(tried), n, unableToEvaluateComment, t, failing)

(* handleKeyringIssue of src/keyring.js, action = opened *)
keyringOpenedByRank(ledger, n, stats, t, failing) ==
  autoEvaluateDeveloperByRank(started(ledger), n, stats, t, failing)

(* handleKeyringIssue, action = labeled, label = approved, up to the call *)
(* of updateAndCommitCRL                                                  *)
keyringLabeled(ledger, n, key, caOk, r, t, failing) ==
  LET run == started(ledger)
      error == certificateError(key, caOk)
  IN IF key = "none"
       THEN awaitRemoveLabel(awaitCreateComment(run, n, noKeyComment, t, failing),
                             n, "approved", failing)
     ELSE IF error # None
       THEN awaitRemoveLabel(
              awaitCreateComment(run, n, issueFailedComment(error), t, failing),
              n, "approved", failing)
     ELSE LET result == issueDeveloperCertificate(ledger[n].author, r, t, n)
          IN awaitCloseIssue(
               awaitCreateComment(run, n,
                 issuanceComment(ledger[n].author, result.serialNumber,
                                 result.fingerprint), t, failing),
               n, TRUE, t, failing)

(* The branches with a failed lookup taken for a certificate not found *)
revokeBranchLookupIgnored(serialNumber, ownership, requester, failing) ==
  IF serialNumber = None THEN "noserial"
  ELSE IF /\ (failing = "graphql" \/ ~ownership.isOwner)
          /\ ~isOrgAdmin(requester, failing # "getMembershipForUser") THEN "denied"
  ELSE "revoked"

(* The branch a run of handleRevokeIssue takes *)
revokeBranch(serialNumber, ownership, requester, failing) ==
  IF serialNumber = None THEN "noserial"
  ELSE IF failing = "graphql" \/ ownershipThrows(ownership) THEN "error"
  ELSE IF /\ ~ownership.isOwner
          /\ ~isOrgAdmin(requester, failing # "getMembershipForUser") THEN "denied"
  ELSE "revoked"

revokeOutcome(ledger, n, requester, failing) ==
  revokeBranch(extractSerialNumber(ledger[n].body),
               verifyCertificateOwnership(ledger, extractSerialNumber(ledger[n].body),
                                          requester),
               requester, failing)

(* handleRevokeIssue with the label revoked added before the success     *)
(* comment is posted                                                      *)
revokeIssueLabelFirst(ledger, n, requester, t, failing) ==
  LET serialNumber == extractSerialNumber(ledger[n].body)
      ownership == verifyCertificateOwnership(ledger, serialNumber, requester)
      outcome == revokeOutcome(ledger, n, requester, failing)
      run == started(ledger)
      tried ==
        IF outcome = "noserial"
          THEN awaitCloseIssue(awaitCreateComment(run, n, noSerialComment, t, failing),
                               n, FALSE, t, failing)
        ELSE IF outcome = "error" THEN thrown(run)
        ELSE IF outcome = "denied"
          THEN awaitCloseIssue(
                 awaitCreateComment(run, n,
                   deniedComment(requester, ownership.actualOwner, ownership.issueNumber),
                   t, failing),
                 n, FALSE, t, failing)
        ELSE awaitCloseIssue(
               awaitCreateComment(
                 awaitAddLabel(run, n, "revoked", failing), n,
                 revokedComment(serialNumber, requester, ownership.actualOwner,
                                ownership.issueNumber, ownership.isOwner), t, failing),
               n, TRUE, t, failing)
  IN IF ~tried.threw THEN tried
     ELSE thrown(awaitCreateComment(caught(tried), n, systemErrorComment, t, failing))

(* handleRevokeIssue, up to the call of updateAndCommitCRL; its catch     *)
(* block posts the system error and throws again.                         *)
revokeIssue(ledger, n, requester, t, failing) ==
  LET serialNumber == extractSerialNumber(ledger[n].body)
      ownership == verifyCertificateOwnership(ledger, serialNumber, requester)
      outcome == revokeOutcome(ledger, n, requester, failing)
      run == started(ledger)
      tried ==
        IF outcome = "noserial"
          THEN awaitCloseIssue(awaitCreateComment(run, n, noSerialComment, t, failing),
                               n, FALSE, t, failing)
        ELSE IF outcome = "error" THEN thrown(run)
        ELSE IF outcome = "denied"
          THEN awaitCloseIssue(
                 awaitCreateComment(run, n,
                   deniedComment(requester, ownership.actualOwner, ownership.issueNumber),
                   t, failing),
                 n, FALSE, t, failing)
        ELSE awaitCloseIssue(
               awaitAddLabel(
                 awaitCreateComment(run, n,
                   revokedComment(serialNumber, requester, ownership.actualOwner,
                                  ownership.issueNumber, ownership.isOwner), t, failing),
                 n, "revoked", failing),
               n, TRUE, t, failing)
  IN IF ~tried.threw THEN tried
     ELSE thrown(awaitCreateComment(caught(tried), n, systemErrorComment, t, failing))

----------------------------------------------------------------------------
(* The state machine *)

NewIssueAt(tag, author, body, t) ==
  [tag |-> tag, author |-> author, body |-> body, labels |-> {},
   state |-> "open", reason |-> "", locked |-> FALSE, comments |-> <<>>,
   createdAt |-> t, closedAt |-> 0]

NewIssue(tag, author, body) == NewIssueAt(tag, author, body, now)

(* The ledger takes MaxIssues issues from empty, and MaxAppended more     *)
(* once it holds a full page of them.                                     *)
LedgerRoom ==
  \/ Len(issues) < MaxIssues
  \/ Len(issues) > PageSize /\ Len(issues) < PageSize + 1 + MaxAppended

(* What cert-check.js has printed last: nothing yet *)
NoReport == [username |-> NoUser, hasActiveCert |-> FALSE,
             statistics |-> [total |-> 0, active |-> 0, expired |-> 0, revoked |-> 0]]

Init ==
  /\ issues = <<>>
  /\ events = {}
  /\ certs = {}
  /\ now = 0
  /\ ticks = 0
  /\ forged = 0
  /\ faults = 0
  /\ crl = NoCRL
  /\ crlFresh = FALSE
  /\ report = NoReport

(* A run may meet one irregular input: a ledger call that throws, a key   *)
(* that is no P-256 key, an author outside the first quarter of the rank. *)
(* The runs of one behaviour meet MaxFaults of them.                      *)
Fault(irregular) ==
  /\ irregular => faults < MaxFaults
  /\ faults' = IF irregular THEN faults + 1 ELSE faults

(* A user files a [keyring] issue and the run of the opened event follows. *)
(* No query reads an open issue without a label, so what the other runs do *)
(* between the filing and this run does not depend on the filing.          *)
FileKeyringIssue(u, stats, failing) ==
  LET n == Len(issues) + 1
  IN /\ LedgerRoom
     /\ Fault(stats # RegularStats \/ failing # NoCall)
     /\ issues' = keyringOpened(Append(issues, NewIssue("keyring", u, <<"PUBLIC KEY">>)),
                                n, stats, now, failing).ledger
     /\ events' = events \cup (IF "approved" \in issues'[n].labels
                                 THEN {<<n, "labeled">>} ELSE {})
     /\ crlFresh' = FALSE
     /\ UNCHANGED <<certs, now, ticks, forged, crl, report>>

(* A user opens a [keyring] issue and the handler of src/keyring.js runs *)
FileKeyringIssueByRank(u, stats, failing) ==
  LET n == Len(issues) + 1
  IN /\ Len(issues) < MaxIssues
     /\ issues' = keyringOpenedByRank(
                     Append(issues, NewIssue("keyring", u, <<"PUBLIC KEY">>)),
                     n, stats, now, failing).ledger
     /\ events' = events \cup (IF "approved" \in issues'[n].labels
                                 THEN {<<n, "labeled">>} ELSE {})
     /\ crlFresh' = FALSE
     /\ UNCHANGED <<certs, now, ticks, forged, faults, crl, report>>

(* A user files a [revoke] issue and the run of handleRevokeIssue follows. *)
(* updateAndCommitCRL is reached by the run that revokes and whose calls   *)
(* have not thrown.                                                        *)
FileRevokeIssue(u, typed, failing) ==
  LET n == Len(issues) + 1
      requester == u
      filed == Append(issues, NewIssue("revoke", u, revokeBody(typed)))
      run == revokeIssue(filed, n, requester, now, failing)
  IN /\ LedgerRoom
     /\ Fault(failing # NoCall)
     /\ issues' = run.ledger
     /\ IF revokeOutcome(filed, n, requester, failing) = "revoked" /\ ~run.threw
          THEN \E update \in {updateAndCommitCRL(issues', crl, now, failing)} :
                 /\ crl' = update.crl
                 /\ crlFresh' = ~update.error
          ELSE /\ crlFresh' = FALSE
               /\ UNCHANGED crl
     /\ UNCHANGED <<events, certs, now, ticks, forged, report>>

(* A user files a [revoke] issue whose body gives a reason, and the run   *)
(* of handleRevokeIssue follows, every ledger call of it succeeding.      *)
FileRevokeIssueWithReason(u, typed, word) ==
  LET n == Len(issues) + 1
      filed == Append(issues, NewIssue("revoke", u, revokeBodyWithReason(typed, word)))
  IN /\ LedgerRoom
     /\ issues' = revokeIssue(filed, n, u, now, NoCall).ledger
     /\ IF revokeOutcome(filed, n, u, NoCall) = "revoked"
          THEN \E update \in {updateAndCommitCRL(issues', crl, now, NoCall)} :
                 /\ crl' = update.crl
                 /\ crlFresh' = ~update.error
          ELSE /\ crlFresh' = FALSE
               /\ UNCHANGED crl
     /\ UNCHANGED <<events, certs, now, ticks, forged, faults, report>>

(* The author of an open keyring issue adds a comment of their own *)
UserComment(n, serialNumber) ==
  /\ forged < MaxForged
  /\ issues[n].tag = "keyring"
  /\ issues[n].state = "open"
  /\ ~issues[n].locked
  /\ issues' = [issues EXCEPT ![n].comments =
                  Append(@, [body |-> imitationComment(serialNumber),
                             author |-> issues[n].author,
                             createdAt |-> now])]
  /\ forged' = forged + 1
  /\ crlFresh' = FALSE
  /\ UNCHANGED <<events, certs, now, ticks, faults, crl, report>>

(* The run of the labeled event of a keyring issue, label = approved.     *)
(* The certificate is handed over with the issuance comment.              *)
(* updateAndCommitCRL is reached when no call has thrown; it catches the  *)
(* failure of its own calls and leaves the published list as it is.       *)
HandleKeyringLabeled(n, key, caOk, r, failing) ==
  LET run == keyringLabeled(issues, n, key, caOk, r, now, failing)
      issued == /\ key # "none"
                /\ certificateError(key, caOk) = None
                /\ failing # "createComment"
  IN /\ <<n, "labeled">> \in events
     /\ issues[n].tag = "keyring"
     /\ Fault(key # "P-256" \/ ~caOk \/ failing # NoCall)
     /\ issues' = run.ledger
     /\ events' = events \ {<<n, "labeled">>}
     /\ certs' = IF issued
                   THEN certs \cup {issueDeveloperCertificate(issues[n].author, r, now, n)}
                 ELSE certs
     /\ IF issued /\ ~run.threw
          THEN \E update \in {updateAndCommitCRL(issues', crl, now, failing)} :
                 /\ crl' = update.crl
                 /\ crlFresh' = ~update.error
          ELSE /\ crlFresh' = FALSE
               /\ UNCHANGED crl
     /\ UNCHANGED <<now, ticks, forged, report>>

(* A build of the CRL that leaves a note on the newest issue *)
GenerateCRLNoting ==
  /\ crlFresh
  /\ issues # <<>>
  /\ crl' = generateCRL(issues, now)
  /\ issues' = createComment(issues, Len(issues), <<"NOTE", "CRL rebuilt">>, now)
  /\ crlFresh' = FALSE
  /\ UNCHANGED <<events, certs, now, ticks, forged, faults, report>>

(* generate-crl.js run on its own, again on the ledger of the last build *)
GenerateCRL ==
  /\ crlFresh
  /\ crl' = generateCRL(issues, now)
  /\ crlFresh' = TRUE
  /\ UNCHANGED <<issues, events, certs, now, ticks, forged, faults, report>>

(* updateAndCommitCRL called at a later instant on the ledger the list    *)
(* committed was built on: the update of a run that overlaps another run, *)
(* whose update has read the ledger after both have closed their issues.  *)
UpdateCRLAgain ==
  /\ crlFresh
  /\ now > crl.generatedAt
  /\ \E update \in {updateAndCommitCRL(issues, crl, now, NoCall)} :
        /\ crl' = update.crl
        /\ crlFresh' = ~update.error
  /\ UNCHANGED <<issues, events, certs, now, ticks, forged, faults, report>>

(* The account of a user is deleted: the issues the user has filed stay  *)
(* on the ledger and their author reads null.                             *)
DeleteAccount(u) ==
  /\ events = {}
  /\ \E n \in 1..Len(issues) : issues[n].author = u
  /\ issues' = [n \in 1..Len(issues) |->
                  IF issues[n].author = u THEN [issues[n] EXCEPT !.author = NoUser]
                  ELSE issues[n]]
  /\ crlFresh' = FALSE
  /\ UNCHANGED <<events, certs, now, ticks, forged, faults, crl, report>>

(* A maintainer closes an approved keyring issue by hand before the run  *)
(* of its labeled event: the closed issue carries no issuance comment.    *)
CloseByHand(n) ==
  /\ issues[n].tag = "keyring"
  /\ issues[n].state = "open"
  /\ "approved" \in issues[n].labels
  /\ issues' = [issues EXCEPT ![n].state = "closed", ![n].reason = "completed",
                              ![n].closedAt = now]
  /\ events' = events \ {<<n, "labeled">>}
  /\ crlFresh' = FALSE
  /\ UNCHANGED <<certs, now, ticks, forged, faults, crl, report>>

(* The body of a revoke issue that has revoked is edited and names no    *)
(* serial number any more.                                                *)
EditBody(n) ==
  /\ issues[n].tag = "revoke"
  /\ issues[n].state = "closed"
  /\ "revoked" \in issues[n].labels
  /\ extractSerialNumber(issues[n].body) # None
  /\ issues' = [issues EXCEPT ![n].body = revokeBody(None)]
  /\ crlFresh' = FALSE
  /\ UNCHANGED <<events, certs, now, ticks, forged, faults, crl, report>>

(* A maintainer takes the label approved off a keyring issue and puts it *)
(* on again, on an open issue or on a closed one: the ledger reads as     *)
(* before and one more labeled event is delivered.  An issue takes        *)
(* MaxDeliveries runs that issue.                                         *)
Relabel(n) ==
  /\ issues[n].tag = "keyring"
  /\ "approved" \in issues[n].labels
  /\ <<n, "labeled">> \notin events
  /\ Len(issues[n].comments) <= MaxDeliveries
  /\ events' = events \cup {<<n, "labeled">>}
  /\ UNCHANGED <<issues, certs, now, ticks, forged, faults, crl, crlFresh, report>>

(* cert-check.js run for a user: it prints what checkExistingCertificate *)
(* and getCertificateStatistics return.                                   *)
CertCheck(u) ==
  /\ report' = [username |-> u,
                hasActiveCert |-> checkExistingCertificate(issues, u, now, TRUE).hasActiveCert,
                statistics |-> getCertificateStatistics(issues, u, now)]
  /\ UNCHANGED <<issues, events, certs, now, ticks, forged, faults, crl, crlFresh>>

(* Days pass between the runs: a run takes less than a day.  They reach   *)
(* the last day of a validity period, or the day after it.                *)
TickDays == {ValidityDays, ValidityDays + 1}

Tick(d) ==
  /\ events = {}
  /\ certs # {}
  /\ ticks < MaxTicks
  /\ now' = now + d
  /\ ticks' = ticks + 1
  /\ UNCHANGED <<issues, events, certs, forged, faults, crl, crlFresh, report>>

(* The runs whose ledger calls succeed, whose key is a P-256 key and     *)
(* whose author ranks in the first quarter                                *)
Next ==
  \/ \E u \in Users : FileKeyringIssue(u, RegularStats, NoCall)
  \/ \E u \in Users, typed \in TypedSerials \cup {None} : FileRevokeIssue(u, typed, NoCall)
  \/ \E n \in IssueNumbers, sn \in Serials : UserComment(n, sn)
  \/ \E n \in IssueNumbers, r \in 0..(SerialSpace - 1) :
        HandleKeyringLabeled(n, "P-256", TRUE, r, NoCall)
  \/ GenerateCRL
  \/ \E d \in TickDays : Tick(d)

Spec == Init /\ [][Next]_vars

(* octokit.graphql is called once for a read of the ledger: the read     *)
(* fails when the ledger fails that many requests in a row.               *)
Attempts == 1
MaxFailures == 2

ledgerRead(failures) == IF failures >= Attempts THEN "graphql" ELSE NoCall

(* The runs with every input: any rank or no statistics, any key, the CA  *)
(* material missing, a ledger call that throws, a ledger that fails the   *)
(* first requests of a read.                                              *)
NextIrregular ==
  \/ \E u \in Users, stats \in Percentiles \cup {NoStats} :
        FileKeyringIssue(u, stats, NoCall)
  \/ \E u \in Users, failing \in Calls : FileKeyringIssue(u, RegularStats, failing)
  \/ \E u \in Users, failures \in 1..MaxFailures :
        FileKeyringIssue(u, RegularStats, ledgerRead(failures))
  \/ \E u \in Users, typed \in Serials \cup {None}, failing \in Calls \cup {NoCall} :
        FileRevokeIssue(u, typed, failing)
  \/ \E n \in IssueNumbers, key \in KeyKinds, caOk \in BOOLEAN :
        HandleKeyringLabeled(n, key, caOk, 0, NoCall)
  \/ \E n \in IssueNumbers, failing \in Calls :
        HandleKeyringLabeled(n, "P-256", TRUE, 0, failing)
  \/ GenerateCRL

SpecIrregular == Init /\ [][NextIrregular]_vars

(* The runs of the handlers with regular inputs, and the two scripts    *)
(* that read the ledger: generate-crl.js and cert-check.js                *)
NextScripts ==
  \/ \E u \in Users : FileKeyringIssue(u, RegularStats, NoCall)
  \/ \E u \in Users, typed \in Serials : FileRevokeIssue(u, typed, NoCall)
  \/ \E n \in IssueNumbers, r \in 0..(SerialSpace - 1) :
        HandleKeyringLabeled(n, "P-256", TRUE, r, NoCall)
  \/ GenerateCRL
  \/ \E u \in Users : CertCheck(u)
  \/ \E d \in TickDays : Tick(d)

SpecScripts == Init /\ [][NextScripts]_vars

(* The runs of the handlers with regular inputs on a ledger that people *)
(* change by hand: accounts are deleted, issues closed, bodies edited.    *)
NextAnomalies ==
  \/ \E u \in Users : FileKeyringIssue(u, RegularStats, NoCall)
  \/ \E u \in Users, typed \in Serials : FileRevokeIssue(u, typed, NoCall)
  \/ \E n \in IssueNumbers, r \in 0..(SerialSpace - 1) :
        HandleKeyringLabeled(n, "P-256", TRUE, r, NoCall)
  \/ \E u \in Users : DeleteAccount(u)
  \/ \E n \in IssueNumbers : CloseByHand(n)
  \/ \E n \in IssueNumbers : EditBody(n)

SpecAnomalies == Init /\ [][NextAnomalies]_vars

(* The runs of the handlers with regular inputs, the revoke issues      *)
(* giving a reason                                                        *)
NextReasons ==
  \/ \E u \in Users : FileKeyringIssue(u, RegularStats, NoCall)
  \/ \E u \in Users, typed \in Serials, word \in ReasonWords :
        FileRevokeIssueWithReason(u, typed, word)
  \/ \E n \in IssueNumbers :
        HandleKeyringLabeled(n, "P-256", TRUE, 0, NoCall)

SpecReasons == Init /\ [][NextReasons]_vars

(* The runs of handleKeyringIssue with regular inputs, the labeled event *)
(* of an issue delivered more than once                                   *)
NextRelabel ==
  \/ \E u \in Users : FileKeyringIssue(u, RegularStats, NoCall)
  \/ \E n \in IssueNumbers, r \in 0..(SerialSpace - 1) :
        HandleKeyringLabeled(n, "P-256", TRUE, r, NoCall)
  \/ \E n \in IssueNumbers : Relabel(n)

SpecRelabel == Init /\ [][NextRelabel]_vars

(* The runs of the handlers whose ledger calls succeed, and whose call   *)
(* of updateAndCommitCRL meets a failing read of the ledger, a failing    *)
(* write of the file or a failing git command                             *)
NextUpdates ==
  \/ \E u \in Users : FileKeyringIssue(u, RegularStats, NoCall)
  \/ \E u \in Users, typed \in Serials, failing \in UpdateCalls \cup {NoCall} :
        FileRevokeIssue(u, typed, failing)
  \/ \E n \in IssueNumbers, r \in 0..(SerialSpace - 1),
        failing \in UpdateCalls \cup {"graphql", NoCall} :
        HandleKeyringLabeled(n, "P-256", TRUE, r, failing)
  \/ UpdateCRLAgain
  \/ \E d \in TickDays : Tick(d)

SpecUpdates == Init /\ [][NextUpdates]_vars

(* The filings under the handler of src/keyring.js, with statistics of    *)
(* every rank, with statistics that cannot be fetched, and with a ledger  *)
(* call that throws                                                       *)
RankCalls == {"createComment", "addLabel", "updateIssue"}

NextRank ==
  \/ \E u \in Users, stats \in RankSamples \cup {NoStats} :
        FileKeyringIssueByRank(u, stats, NoCall)
  \/ \E u \in Users, stats \in Percentiles, failing \in RankCalls :
        FileKeyringIssueByRank(u, stats, failing)

SpecRank == Init /\ [][NextRank]_vars

(* A ledger that has grown over the page of the queries: the keyring     *)
(* issue #1 of Alice with its certificate, then PageSize [revoke] issues  *)
(* of an org admin, each naming a serial number of its own, each handled  *)
(* by handleRevokeIssue.                                                  *)
(* The handlers run on an issue as it is filed, so each entry is what    *)
(* handleRevokeIssue leaves of it; the only keyring issue it finds is #1. *)
FirstKeyring ==
  keyringLabeled(
    keyringOpened(<<NewIssueAt("keyring", "Alice", <<"PUBLIC KEY">>, 0)>>,
                  1, RegularStats, 0, NoCall).ledger,
    1, "P-256", TRUE, 0, 0, NoCall).ledger

LongLedgerFrom(first, k) ==
  [n \in 1..(k + 1) |->
     IF n = 1 THEN first[1]
     ELSE revokeIssue(
            Append(first,
                   NewIssueAt("revoke", "root", revokeBody(generateSerialNumber(n - 1)), 0)),
            2, "root", 0, NoCall).ledger[2]]

LongLedger(k) == LongLedgerFrom(FirstKeyring, k)

InitLong ==
  /\ issues = LongLedger(PageSize)
  /\ events = {}
  /\ certs = {issueDeveloperCertificate("Alice", 0, 0, 1)}
  /\ now = 0
  /\ ticks = 0
  /\ forged = 0
  /\ faults = 0
  /\ crl = generateCRL(issues, 0)
  /\ crlFresh = TRUE
  /\ report = NoReport

(* What is filed on the long ledger: revocations of the certificate of   *)
(* issue #1 and of one more serial number, by the owner and by an admin. *)
NextLong ==
  \/ \E u \in {"Alice", "root"},
        typed \in {generateSerialNumber(0), generateSerialNumber(PageSize + 1)} :
        FileRevokeIssue(u, typed, NoCall)
  \/ GenerateCRL
  \/ \E d \in TickDays : Tick(d)

SpecLong == InitLong /\ [][NextLong]_vars

----------------------------------------------------------------------------
(* What the claims speak about *)

sameUser(a, b) == toLowerCase(a) = toLowerCase(b)

(* The closed [revoke] entries labelled revoked that name serialNumber *)
revocationRecords(ledger, serialNumber) ==
  {n \in 1..Len(ledger) :
      /\ ledger[n].tag = "revoke"
      /\ ledger[n].state = "closed"
      /\ "revoked" \in ledger[n].labels
      /\ extractSerialNumber(ledger[n].body) = serialNumber}

withinValidity(c, t) == c.notBefore <= t /\ t <= c.notAfter

(* The step that files issue n of the given tag and runs its handler *)
Filed(tag) ==
  /\ Len(issues') = Len(issues) + 1
  /\ issues'[Len(issues')].tag = tag

filedIssue == issues'[Len(issues')]

wasRevoked(issue) == "revoked" \in issue.labels
wasDenied(issue) ==
  /\ "revoked" \notin issue.labels
  /\ \E k \in DOMAIN issue.comments : hasAtom(issue.comments[k].body, "DENIED")

(* The system issued a certificate with exactly this serial number to user *)
issuedTo(serialNumber, user) ==
  \E c \in certs : c.serialNumber = serialNumber /\ sameUser(c.subject, user)

(* C1: every certificate within its validity window for which a closed,   *)
(* revoked-labelled [revoke] entry of its owner or of an org admin names  *)
(* its serial number is classified revoked, never active, by              *)
(* checkExistingCertificate and by getCertificateStatistics.              *)
C1_RevocationPrecedence ==
  \A c \in certs :
    (/\ withinValidity(c, now)
     /\ \E n \in revocationRecords(issues, c.serialNumber) :
           sameUser(issues[n].author, c.subject) \/ issues[n].author \in OrgAdmins)
    => LET existing == checkExistingCertificate(issues, c.subject, now, TRUE)
       IN /\ ~(existing.hasActiveCert /\ existing.issueNumber = c.issueNumber)
          /\ statisticsStatus(issues, c.subject, c.issueNumber, now) = "revoked"

(* C2: handleRevokeIssue proceeds when the requester is the author of the *)
(* keyring entry that issued the serial, denies when the requester is     *)
(* neither that owner nor an org admin, and proceeds for every org admin. *)
C2_AuthorizationSymmetry ==
  [][(Filed("revoke") /\ extractSerialNumber(filedIssue.body) # None)
       => LET serialNumber == extractSerialNumber(filedIssue.body)
              requester == filedIssue.author
              owner == issuedTo(serialNumber, requester)
          IN /\ owner => wasRevoked(filedIssue)
             /\ (~owner /\ requester \notin OrgAdmins) => wasDenied(filedIssue)
             /\ requester \in OrgAdmins => wasRevoked(filedIssue)]_vars

(* C3: a requester who is no org admin is permitted to revoke a serial    *)
(* only if the system issued the certificate with exactly that serial in  *)
(* a keyring entry of that requester.                                     *)
C3_OwnershipCrossCheck ==
  [][(Filed("revoke") /\ wasRevoked(filedIssue) /\ filedIssue.author \notin OrgAdmins)
       => issuedTo(extractSerialNumber(filedIssue.body), filedIssue.author)]_vars

(* The certificates of user that are unexpired and on no CRL *)
unexpiredUnrevoked(user) ==
  {c \in certs :
      /\ sameUser(c.subject, user)
      /\ now <= c.notAfter
      /\ revocationRecords(issues, c.serialNumber) = {}}

(* C4: at every instant at most one certificate issued to an identity is  *)
(* unexpired and unrevoked.                                               *)
C4_SingleActiveCertificate ==
  \A u \in Users : Cardinality(unexpiredUnrevoked(u)) <= 1

(* C5: checkExistingCertificate reports at most one active record for an  *)
(* identity, whatever the ledger holds.                                   *)
C5_UniquenessOfActive ==
  \A u \in Users : Len(resolveActive(issues, u, now)) <= 1

(* Two certificate entries of one user are both unexpired and unrevoked   *)
(* for the resolver, and it reports one.                                  *)
C5_Witness ==
  \E u \in Users :
    /\ Len(resolveActive(issues, u, now)) = 1
    /\ \E m, n \in IssueNumbers :
          /\ m < n
          /\ \A x \in {m, n} :
                /\ issues[x].tag = "keyring" /\ sameUser(issues[x].author, u)
                /\ issues[x].state = "closed" /\ "approved" \in issues[x].labels
                /\ extractCertificateInfo(issues[x].comments) # None
                /\ statisticsStatus(issues, u, x, now) = "active"

(* C6: a keyring issue opened by an identity with an active certificate   *)
(* gets the rejection comment naming the serial and the original issue,   *)
(* the single label duplicate, is closed as not planned, and is neither   *)
(* approved nor evaluated.                                                *)
C6_DuplicateRejected ==
  [][Filed("keyring")
       => LET existing == checkExistingCertificate(issues, filedIssue.author, now, TRUE)
          IN existing.hasActiveCert
               => /\ Len(filedIssue.comments) = 1
                  /\ filedIssue.comments[1].body =
                       rejectionComment(existing.certificate.serialNumber,
                                        existing.certificate.fingerprint,
                                        existing.issueNumber)
                  /\ filedIssue.labels = {"duplicate"}
                  /\ filedIssue.state = "closed"
                  /\ filedIssue.reason = "not_planned"
                  /\ <<Len(issues'), "labeled">> \notin events']_vars

C6_Witness ==
  \E n \in IssueNumbers :
    /\ issues[n].tag = "keyring"
    /\ issues[n].labels = {"duplicate"}
    /\ issues[n].state = "closed"
    /\ \E m \in 1..(n - 1) :
          /\ sameUser(issues[m].author, issues[n].author)
          /\ hasAtom(issues[n].comments[1].body, IssueRef[m])

(* Every certificate issued to user is expired or successfully revoked *)
allExpiredOrRevoked(user) ==
  \A c \in certs :
    sameUser(c.subject, user)
      => now > c.notAfter \/ revocationRecords(issues, c.serialNumber) # {}

(* C7: when every certificate issued to an identity is expired or has     *)
(* been revoked, a keyring issue it opens is approved, not rejected.      *)
C7_ReissueAfterExpiryOrRevocation ==
  [][(Filed("keyring") /\ allExpiredOrRevoked(filedIssue.author))
       => /\ "approved" \in filedIssue.labels
          /\ "duplicate" \notin filedIssue.labels]_vars

(* The classifications of the resolver's scan for user *)
resolverScan(user) ==
  LET fetched == fetchUserCertificateIssues(issues, user)
  IN scanCertificates(issues, validKeyringIssues(issues, fetched.keyringIssues),
                      fetched.revokeIssues, now)

(* C8: a record extracted with issuedAt = T, the time of its issuance     *)
(* comment, has expiresAt = T + 365 days, and later than that instant the *)
(* resolver does not classify it active.                                  *)
C8_ExpiryMonotonicity ==
  \A u \in Users :
    LET scan == resolverScan(u)
    IN \A k \in DOMAIN scan :
         LET T == scan[k].certificate.issuedAt
         IN /\ \E j \in DOMAIN issues[scan[k].issueNumber].comments :
                 issues[scan[k].issueNumber].comments[j].createdAt = T
            /\ scan[k].certificate.expiresAt = T + ValidityDays
            /\ now > T + ValidityDays => scan[k].status # "active"

C8_Witness ==
  \E u \in Users :
    \E k \in DOMAIN resolverScan(u) :
      /\ now = resolverScan(u)[k].certificate.issuedAt + ValidityDays + 1
      /\ resolverScan(u)[k].status = "expired"
      /\ revocationRecords(issues, resolverScan(u)[k].certificate.serialNumber) = {}

(* C9: a requester who is no org admin and names a serial number with no  *)
(* issuance record is denied, and the denial names no owner and no issue. *)
C9_UnknownSerial ==
  [][(/\ Filed("revoke")
      /\ extractSerialNumber(filedIssue.body) # None
      /\ filedIssue.author \notin OrgAdmins
      /\ \A c \in certs : c.serialNumber # extractSerialNumber(filedIssue.body))
       => /\ wasDenied(filedIssue)
          /\ filedIssue.comments[1].body = deniedComment(filedIssue.author, NoUser, NoIssue)
          /\ verifyCertificateOwnership(issues, extractSerialNumber(filedIssue.body),
                                        filedIssue.author)
               = [isOwner |-> FALSE, actualOwner |-> NoUser, issueNumber |-> NoIssue]]_vars

exceptGeneratedAt(c) == [c EXCEPT !.generatedAt = 0]

(* C10: a second build of the CRL on an unchanged ledger gives the same   *)
(* CRL in every field but generatedAt.                                    *)
C10_CRLIdempotence ==
  [][(crlFresh /\ issues' = issues)
       => exceptGeneratedAt(crl') = exceptGeneratedAt(crl)]_vars

(* A CRL that lists a revocation was built a second time, later *)
C10_Witness ==
  /\ crlFresh
  /\ crl.totalRevoked > 0
  /\ \E k \in DOMAIN crl.revokedCertificates :
        crl.generatedAt > crl.revokedCertificates[k].revokedAt

(* The closed [revoke] entries labelled revoked that name a serial number *)
revokeEntries ==
  {n \in 1..Len(issues) :
      /\ issues[n].tag = "revoke"
      /\ issues[n].state = "closed"
      /\ "revoked" \in issues[n].labels
      /\ extractSerialNumber(issues[n].body) # None}

namedSerial(n) == extractSerialNumber(issues[n].body)

(* The certificates whose keyring entry is closed and labelled approved *)
issuedEntries ==
  {c \in certs : issues[c.issueNumber].state = "closed"
                  /\ "approved" \in issues[c.issueNumber].labels}

(* C11: when the issued serial numbers are pairwise distinct and the      *)
(* revoke entries name pairwise distinct serial numbers, the CRL has      *)
(* totalIssued = the number of issuance entries and totalRevoked = the    *)
(* number of revoke entries; each revoked serial is listed, with owner    *)
(* and fingerprint of its issuance when there is one, and otherwise with  *)
(* the author of the revoke entry as owner and no fingerprint.            *)
C11_CRLTotalsAndFallback ==
  LET built == generateCRL(issues, now)
      listed == built.revokedCertificates
  IN (/\ \A c, d \in issuedEntries : c.serialNumber = d.serialNumber => c = d
      /\ \A m, n \in revokeEntries : namedSerial(m) = namedSerial(n) => m = n)
     => /\ built.totalIssued = Cardinality(issuedEntries)
        /\ built.totalRevoked = Cardinality(revokeEntries)
        /\ \A n \in revokeEntries :
             \E k \in DOMAIN listed :
               /\ listed[k].serialNumber = namedSerial(n)
               /\ IF \E c \in issuedEntries : c.serialNumber = namedSerial(n)
                    THEN \E c \in issuedEntries :
                           /\ c.serialNumber = namedSerial(n)
                           /\ listed[k].owner = c.subject
                           /\ listed[k].fingerprint = c.fingerprint
                  ELSE /\ listed[k].owner = issues[n].author
                       /\ listed[k].fingerprint = None

(* The serial numbers a build of the CRL on the ledger lists *)
listedSerials(ledger, t) ==
  LET listed == generateCRL(ledger, t).revokedCertificates
  IN {listed[k].serialNumber : k \in DOMAIN listed}

(* C12: the serial number of every closed, revoked-labelled [revoke]      *)
(* entry of the ledger is listed by the CRL built on the ledger, whatever *)
(* has been appended since the entry was made.                            *)
C12_CRLMonotonicity ==
  \A n \in revokeEntries : namedSerial(n) \in listedSerials(issues, now)

(* C13: no two entries of revokedCertificates have the same serial        *)
(* number, and totalRevoked is the length of revokedCertificates.         *)
C13_CRLDeduplication ==
  LET built == generateCRL(issues, now)
      listed == built.revokedCertificates
  IN /\ \A j, k \in DOMAIN listed :
          listed[j].serialNumber = listed[k].serialNumber => j = k
     /\ built.totalRevoked = Len(listed)

(* Two revoke entries name one serial number, and the CRL lists it *)
C13_Witness ==
  \E m, n \in revokeEntries :
    /\ m # n
    /\ namedSerial(m) = namedSerial(n)
    /\ namedSerial(m) \in listedSerials(issues, now)

(* C14: revokedCertificates is ordered by revokedAt, non-increasing *)
C14_CRLOrdering ==
  LET listed == generateCRL(issues, now).revokedCertificates
  IN \A k \in 1..(Len(listed) - 1) : listed[k].revokedAt >= listed[k + 1].revokedAt

(* The CRL lists revocations of two different days *)
C14_Witness ==
  LET listed == generateCRL(issues, now).revokedCertificates
  IN \E j, k \in DOMAIN listed : listed[j].revokedAt > listed[k].revokedAt

(* The texts of the comments of an issue, in their order *)
bodiesOf(issue) == [k \in DOMAIN issue.comments |-> issue.comments[k].body]

(* C15: when the query of the ledger fails, checkExistingCertificate      *)
(* returns hasActiveCert = false with an error, and the run of the opened *)
(* event posts the notice that the history could not be verified, then    *)
(* evaluates and approves: the issue stays open with the label approved.  *)
C15_FailOpenWithSignal ==
  [][\A u \in Users :
       FileKeyringIssue(u, RegularStats, "graphql")
         => LET existing == checkExistingCertificate(issues, u, now, FALSE)
            IN /\ ~existing.hasActiveCert
               /\ existing.error
               /\ bodiesOf(filedIssue) =
                    <<verifyNoticeComment, approvalComment(rankLevel(RegularStats))>>
               /\ filedIssue.labels = {"approved"}
               /\ filedIssue.state = "open"
               /\ <<Len(issues'), "labeled">> \in events']_vars

(* A keyring issue carries the notice, then the approval *)
C15_Witness ==
  \E n \in IssueNumbers :
    /\ issues[n].tag = "keyring"
    /\ Len(issues[n].comments) >= 2
    /\ issues[n].comments[1].body = verifyNoticeComment
    /\ hasAtom(issues[n].comments[2].body, "Auto-Approved")
    /\ "approved" \in issues[n].labels

C17_SerialsDistinct ==
  \A m, n \in IssueNumbers :
    LET a == extractCertificateInfo(issues[m].comments)
        b == extractCertificateInfo(issues[n].comments)
    IN (/\ m # n
        /\ \E c \in certs : c.issueNumber = m
        /\ \E c \in certs : c.issueNumber = n
        /\ a # None
        /\ b # None)
         => a.serialNumber # b.serialNumber

(* C18: a keyring issue opened by an author without an active certificate *)
(* gets one approval comment and the label approved, and waits for no     *)
(* review, whatever the rank of the author, and also when the statistics  *)
(* cannot be fetched.                                                     *)
C18_ReputationDoesNotGate ==
  [][\A u \in Users, stats \in Percentiles \cup {NoStats} :
       (/\ FileKeyringIssue(u, stats, NoCall)
        /\ ~checkExistingCertificate(issues, u, now, TRUE).hasActiveCert)
         => /\ bodiesOf(filedIssue) =
                 <<IF stats = NoStats THEN fallbackApprovalComment
                   ELSE approvalComment(rankLevel(stats))>>
            /\ filedIssue.labels = {"approved"}
            /\ filedIssue.state = "open"
            /\ <<Len(issues'), "labeled">> \in events']_vars

(* An author of the last quarter of the rank is approved *)
C18_Witness ==
  \E n \in IssueNumbers :
    /\ issues[n].tag = "keyring"
    /\ "approved" \in issues[n].labels
    /\ Len(issues[n].comments) >= 1
    /\ issues[n].comments[1].body = approvalComment("C")

(* The issue a run of a handler was about in the step: the issue filed,   *)
(* or the issue whose labeled event the step has taken                    *)
ranOn(n) ==
  \/ Len(issues') = Len(issues) + 1 /\ n = Len(issues')
  \/ <<n, "labeled">> \in events /\ <<n, "labeled">> \notin events'

(* The run has approved the request, issued the certificate, or revoked *)
ranToSuccess(n) ==
  IF n > Len(issues)
    THEN \/ issues'[n].tag = "keyring" /\ "approved" \in issues'[n].labels
         \/ issues'[n].tag = "revoke" /\ "revoked" \in issues'[n].labels
  ELSE \E c \in certs' \ certs : c.issueNumber = n

(* The text tells the requester that the request has failed *)
statesFailure(body) ==
  \E a \in {"REJECTED", "DENIED", "FAILED", "Unable to extract valid public key"} :
    hasAtom(body, a)

(* The comments the step has added to issue n *)
postedOn(n) ==
  LET before == IF n > Len(issues) THEN 0 ELSE Len(issues[n].comments)
  IN {issues'[n].comments[k].body : k \in (before + 1)..Len(issues'[n].comments)}

(* C19: a run of handleKeyringIssue or handleRevokeIssue that ends        *)
(* without approving, issuing or revoking, be it for a validation         *)
(* failure, a denial or a ledger call that throws, posts a comment on     *)
(* its issue that states the failure.                                     *)
C19_NoSilentFailure ==
  [][\A n \in 1..Len(issues') :
       (ranOn(n) /\ ~ranToSuccess(n)) => \E body \in postedOn(n) : statesFailure(body)]_vars

(* C20: a read of the ledger that fails once is tried again: the run of   *)
(* the opened event whose query fails one request posts no notice of a    *)
(* failed check, and the run of handleRevokeIssue whose query fails one   *)
(* request posts no system error.                                         *)
C20_RetryOnce ==
  [][\A u \in Users :
       /\ FileKeyringIssue(u, RegularStats, ledgerRead(1))
            => \A body \in postedOn(Len(issues')) : body # verifyNoticeComment
       /\ \A typed \in Serials :
            FileRevokeIssue(u, typed, ledgerRead(1))
              => \A body \in postedOn(Len(issues')) : body # systemErrorComment]_vars

(* C21: a run of handleRevokeIssue that denies the request, or finds no   *)
(* serial number in it, posts the one failure comment (with the owner and *)
(* the original issue when they are known), closes the issue as not       *)
(* planned, adds no label revoked and leaves the published CRL as it is;  *)
(* no CRL built later has an entry that comes from such an issue.         *)
C21_DeniedNeverRecorded ==
  [][Filed("revoke")
       => LET n == Len(issues')
              requester == filedIssue.author
              serialNumber == extractSerialNumber(filedIssue.body)
              ownership == verifyCertificateOwnership(issues, serialNumber, requester)
              outcome == revokeOutcome(issues', n, requester, NoCall)
              later == generateCRL(issues', now').revokedCertificates
          IN outcome \in {"denied", "noserial"}
               => /\ bodiesOf(filedIssue) =
                       <<IF outcome = "noserial" THEN noSerialComment
                         ELSE deniedComment(requester, ownership.actualOwner,
                                            ownership.issueNumber)>>
                  /\ filedIssue.state = "closed"
                  /\ filedIssue.reason = "not_planned"
                  /\ "revoked" \notin filedIssue.labels
                  /\ crl' = crl
                  /\ \A m \in 1..Len(issues') :
                        (issues'[m].tag = "revoke" /\ "revoked" \notin issues'[m].labels)
                          => \A k \in DOMAIN later : later[k].revokeIssueNumber # m]_vars

(* A request for the certificate of another user was denied with the     *)
(* owner named, and the CRL does not list the serial number               *)
C21_Witness ==
  \E n \in IssueNumbers :
    /\ issues[n].tag = "revoke"
    /\ wasDenied(issues[n])
    /\ hasAtom(issues[n].comments[1].body, "Owner")
    /\ issues[n].reason = "not_planned"
    /\ namedSerial(n) \notin listedSerials(issues, now)

(* C22: the derivations leave the ledger as it is.  A run of              *)
(* generate-crl.js and a run of cert-check.js (checkExistingCertificate,  *)
(* getCertificateStatistics) change no issue; the run of a handler on an  *)
(* issue, with its resolution, its ownership check, its certificate and   *)
(* its rebuild of the CRL, changes no other issue.                        *)
C22_ReadOnlyDerivations ==
  [][/\ GenerateCRL => issues' = issues
     /\ (\E u \in Users : CertCheck(u)) => issues' = issues
     /\ \A n \in 1..Len(issues') :
          ranOn(n) => \A m \in 1..Len(issues) : m # n => issues'[m] = issues[m]]_vars

(* cert-check.js has reported an active certificate and the CRL has been *)
(* built on a ledger with a revocation                                    *)
C22_Witness ==
  /\ report.statistics.total >= 1
  /\ crlFresh
  /\ crl.totalRevoked >= 1
  /\ Len(issues) >= 2

(* C23: on one ledger, the resolver takes the certificate of a closed,   *)
(* approved keyring entry for revoked exactly when the CRL built on the   *)
(* ledger lists its serial number.                                        *)
C23_ResolverAgreesWithCRL ==
  \A c \in issuedEntries :
    isCertificateRevoked(issues, c.serialNumber,
                         fetchUserCertificateIssues(issues, c.subject).revokeIssues)
      <=> c.serialNumber \in listedSerials(issues, now)

(* The issuance comments of a thread, by position *)
markerPositions(comments) ==
  {k \in DOMAIN comments : isIssuanceComment(comments[k])}

(* C24: when the thread of a keyring issue holds several issuance        *)
(* comments, the record the resolver extracts and the record the CRL      *)
(* builder extracts are both read from the last of them.                  *)
C24_LastMarkerWins ==
  \A n \in 1..Len(issues) :
    LET comments == commentsOf(issues, n)
        ks == markerPositions(comments)
        last == certInfoOf(comments[Max(ks)])
        built == extractCertificateInfoFromComments(comments)
    IN (issues[n].tag = "keyring" /\ Cardinality(ks) >= 2) =>
         /\ extractCertificateInfo(comments) = last
         /\ IF last = None THEN built = None
            ELSE /\ built # None
                 /\ built.serialNumber = last.serialNumber
                 /\ built.fingerprint = last.fingerprint
                 /\ built.issuedAt = last.issuedAt

(* The closed, approved keyring issues whose thread yields the serial S   *)
entriesWithSerial(S) ==
  {n \in 1..Len(issues) :
     /\ issues[n].tag = "keyring"
     /\ issues[n].state = "closed"
     /\ "approved" \in issues[n].labels
     /\ extractCertificateInfoFromComments(commentsOf(issues, n)) # None
     /\ extractCertificateInfoFromComments(commentsOf(issues, n)).serialNumber = S}

(* C25: when two closed, approved keyring issues carry one serial number, *)
(* the record the CRL builder keeps for it (owner, fingerprint, issue     *)
(* number) is that of the most recently created of them, and totalIssued  *)
(* counts the serial number once.                                         *)
C25_DuplicateSerialResolution ==
  LET issued == issuedCertificates(issues, fetchAllIssues(issues).approvedIssues, <<>>)
      carried == {S \in Serials : entriesWithSerial(S) # {}}
  IN /\ generateCRL(issues, now).totalIssued = Cardinality(carried)
     /\ \A S \in carried :
          Cardinality(entriesWithSerial(S)) >= 2 =>
            LET newest == Max(entriesWithSerial(S))
                info == extractCertificateInfoFromComments(commentsOf(issues, newest))
            IN /\ issued[S].issueNumber = newest
               /\ issued[S].owner = issues[newest].author
               /\ issued[S].fingerprint = info.fingerprint

(* A closed issue of the ledger that the readers cannot use: a keyring    *)
(* issue without an issuance comment or serial number, a revoke issue     *)
(* without a serial number, an issue without an author.                   *)
malformed(n) ==
  \/ /\ issues[n].tag = "keyring"
     /\ issues[n].state = "closed"
     /\ "approved" \in issues[n].labels
     /\ extractCertificateInfoFromComments(commentsOf(issues, n)) = None
  \/ /\ issues[n].tag = "revoke"
     /\ issues[n].state = "closed"
     /\ "revoked" \in issues[n].labels
     /\ extractSerialNumber(issues[n].body) = None
  \/ /\ issues[n].state = "closed"
     /\ issues[n].labels \cap {"approved", "revoked"} # {}
     /\ issues[n].author = NoUser

(* The ledger without the issue n: no query returns it, the numbers of    *)
(* the other issues stay.                                                 *)
withoutEntry(n) == [issues EXCEPT ![n].state = "removed", ![n].labels = {}]

(* C26: when one entry of the ledger is malformed, generateCRL and        *)
(* checkExistingCertificate complete without error and return what they   *)
(* return on the ledger without that entry.                               *)
C26_MalformedEntriesSkipped ==
  \A n \in 1..Len(issues) :
    (malformed(n) /\ \A m \in 1..Len(issues) : malformed(m) => m = n) =>
       /\ ~generateCRLThrows(issues)
       /\ generateCRL(issues, now) = generateCRL(withoutEntry(n), now)
       /\ \A u \in Users :
            checkExistingCertificate(issues, u, now, TRUE)
              = checkExistingCertificate(withoutEntry(n), u, now, TRUE)

(* No closed, approved keyring issue of the ledger holds an issuance      *)
(* comment with the serial number S, and no certificate was issued with it *)
unknownSerial(ledger, S) ==
  /\ \A c \in certs : c.serialNumber # S
  /\ \A n \in 1..Len(ledger) :
       (ledger[n].tag = "keyring" /\ ledger[n].state = "closed"
          /\ "approved" \in ledger[n].labels) =>
         \A k \in DOMAIN ledger[n].comments :
            ~ownershipComment(ledger[n].comments[k], S)

(* C27: a revoke issue that names a serial number with no issuance record *)
(* in any closed, approved keyring issue is not revoked, whoever files it: *)
(* no success comment, no label revoked, no CRL rebuild.                  *)
C27_UnknownSerialDenied ==
  [][(/\ Filed("revoke")
      /\ extractSerialNumber(filedIssue.body) # None
      /\ unknownSerial(issues, extractSerialNumber(filedIssue.body)))
       => /\ ~wasRevoked(filedIssue)
          /\ \A k \in DOMAIN filedIssue.comments :
               ~hasAtom(filedIssue.comments[k].body, "Certificate Revoked Successfully")
          /\ crl' = crl]_vars

(* The closed, approved keyring issues of user whose extracted record is  *)
(* not expired and has no revocation record on the ledger                 *)
unexpiredUnrevokedEntries(user) ==
  {n \in 1..Len(issues) :
     /\ issues[n].tag = "keyring"
     /\ issues[n].state = "closed"
     /\ "approved" \in issues[n].labels
     /\ sameUser(issues[n].author, user)
     /\ extractCertificateInfo(commentsOf(issues, n)) # None
     /\ now <= extractCertificateInfo(commentsOf(issues, n)).expiresAt
     /\ revocationRecords(issues,
          extractCertificateInfo(commentsOf(issues, n)).serialNumber) = {}}

(* C28: checkExistingCertificate returns as active the record of the most *)
(* recently created keyring issue whose record is neither expired nor     *)
(* revoked, and hasActiveCert = false exactly when there is none.         *)
C28_FirstActiveWins ==
  \A u \in Users :
    LET existing == checkExistingCertificate(issues, u, now, TRUE)
        entries == unexpiredUnrevokedEntries(u)
    IN IF entries = {} THEN ~existing.hasActiveCert
       ELSE /\ existing.hasActiveCert
            /\ existing.issueNumber = Max(entries)
            /\ existing.certificate = extractCertificateInfo(commentsOf(issues, Max(entries)))

(* C29: the resolver classifies a certificate active only at instants of  *)
(* the half-open interval [notBefore, notBefore + 365 days) the issuer    *)
(* put into it; at notBefore + 365 days and later it is not active.       *)
C29_ValidityWindowAlignment ==
  \A u \in Users :
    LET scan == resolverScan(u)
    IN \A k \in DOMAIN scan :
         \A c \in certs :
           (/\ c.issueNumber = scan[k].issueNumber
            /\ c.serialNumber = scan[k].certificate.serialNumber
            /\ scan[k].status = "active")
             => /\ c.notBefore <= now
                /\ now < c.notBefore + ValidityDays

hasSuccessComment(issue) ==
  \E k \in DOMAIN issue.comments :
     hasAtom(issue.comments[k].body, "Certificate Revoked Successfully")

(* The serial numbers the CRL builder finds in the closed, approved       *)
(* keyring issues of the ledger                                           *)
countedSerials(ledger) ==
  {extractCertificateInfoFromComments(commentsOf(ledger, n)).serialNumber :
     n \in {x \in 1..Len(ledger) :
              /\ ledger[x].tag = "keyring"
              /\ ledger[x].state = "closed"
              /\ "approved" \in ledger[x].labels
              /\ extractCertificateInfoFromComments(commentsOf(ledger, x)) # None}}

ReasonEnum == {"keyCompromise", "superseded", "unspecified"}

(* C31: for the body of every revoke issue extractRevocationReason gives  *)
(* keyCompromise, superseded or unspecified, and the field reason of      *)
(* every entry of the CRL is one of the three.                            *)
C31_ReasonInEnum ==
  /\ \A n \in IssueNumbers :
        issues[n].tag = "revoke" => extractRevocationReason(issues[n].body) \in ReasonEnum
  /\ \A k \in DOMAIN crl.revokedCertificates :
        crl.revokedCertificates[k].reason \in ReasonEnum

(* The issuance comments the handler has posted on an issue *)
issuancesOn(issue) ==
  {k \in DOMAIN issue.comments :
     issue.comments[k].author = "bot" /\ isIssuanceComment(issue.comments[k])}

(* C32: every keyring issue carries at most one issuance comment and at   *)
(* most one certificate is issued for it, however many labeled events of  *)
(* the label approved are delivered for it, also after it is closed.      *)
C32_OneCertificatePerEntry ==
  \A n \in IssueNumbers :
    issues[n].tag = "keyring"
      => /\ Cardinality(issuancesOn(issues[n])) <= 1
         /\ Cardinality({c \in certs : c.issueNumber = n}) <= 1

(* C33: a keyring issue on which the handler has posted an issuance       *)
(* comment is closed and carries the label approved, so that the queries  *)
(* of the resolver and of the CRL builder return it, also when a ledger   *)
(* call of the run after the comment has thrown.                          *)
C33_IssuedAlwaysRecorded ==
  \A n \in IssueNumbers :
    (issues[n].tag = "keyring" /\ issuancesOn(issues[n]) # {})
      => /\ issues[n].state = "closed"
         /\ "approved" \in issues[n].labels

(* C34: a run of handleRevokeIssue whose ownership lookup fails revokes   *)
(* nothing: it posts no success comment, adds no label revoked, leaves    *)
(* the issue open and the published CRL as it is; it posts the system     *)
(* error comment and throws the error again.                              *)
C34_RevocationFailsClosed ==
  [][\A u \in Users, typed \in Serials :
       (/\ Filed("revoke")
        /\ u = filedIssue.author
        /\ typed = extractSerialNumber(filedIssue.body)
        /\ FileRevokeIssue(u, typed, "graphql"))
         => /\ bodiesOf(filedIssue) = <<systemErrorComment>>
            /\ ~hasSuccessComment(filedIssue)
            /\ filedIssue.labels = {}
            /\ filedIssue.state = "open"
            /\ crl' = crl
            /\ ~crlFresh'
            /\ revokeIssue(Append(issues, NewIssue("revoke", u, revokeBody(typed))),
                           Len(issues) + 1, u, now, "graphql").threw]_vars

(* A revoke issue that names a serial number is open without a label and  *)
(* carries the system error comment alone                                 *)
C34_Witness ==
  \E n \in IssueNumbers :
    /\ issues[n].tag = "revoke"
    /\ extractSerialNumber(issues[n].body) # None
    /\ bodiesOf(issues[n]) = <<systemErrorComment>>
    /\ issues[n].state = "open"
    /\ issues[n].labels = {}

(* C35: when the lookup of the organization membership fails, isOrgAdmin  *)
(* returns false for every requester, and a requester who is not the      *)
(* owner of the certificate is denied: the run posts no success comment,  *)
(* adds no label revoked and leaves the published CRL as it is.  The      *)
(* owner is served without the lookup.                                    *)
C35_AdminCheckFailsClosed ==
  [][\A u \in Users, typed \in Serials :
       (/\ Filed("revoke")
        /\ u = filedIssue.author
        /\ typed = extractSerialNumber(filedIssue.body)
        /\ FileRevokeIssue(u, typed, "getMembershipForUser"))
         => /\ ~isOrgAdmin(u, FALSE)
            /\ IF verifyCertificateOwnership(issues, typed, u).isOwner
                 THEN wasRevoked(filedIssue)
               ELSE /\ wasDenied(filedIssue)
                    /\ ~hasSuccessComment(filedIssue)
                    /\ filedIssue.state = "closed"
                    /\ filedIssue.reason = "not_planned"
                    /\ crl' = crl]_vars

(* An org admin who asked for the certificate of another user has been    *)
(* denied                                                                 *)
C35_Witness ==
  \E n \in IssueNumbers :
    /\ issues[n].tag = "revoke"
    /\ issues[n].author \in OrgAdmins
    /\ wasDenied(issues[n])
    /\ hasAtom(issues[n].comments[1].body, "Owner")

(* C36: a failure inside updateAndCommitCRL (the read of the ledger, the  *)
(* write of the file, a git command) is returned as updated = false with  *)
(* an error and is not thrown; the crl.json of the repository stays as it *)
(* was; the run that has revoked or issued leaves the ledger as the run   *)
(* without the failure leaves it.                                         *)
C36_UpdateNeverBlocks ==
  [][/\ \A u \in Users, typed \in Serials, failing \in UpdateCalls :
          (/\ Filed("revoke")
           /\ u = filedIssue.author
           /\ typed = extractSerialNumber(filedIssue.body)
           /\ FileRevokeIssue(u, typed, failing))
            => LET filed == Append(issues, NewIssue("revoke", u, revokeBody(typed)))
                   update == updateAndCommitCRL(issues', crl, now, failing)
               IN /\ issues' = revokeIssue(filed, Len(filed), u, now, NoCall).ledger
                  /\ ~revokeIssue(filed, Len(filed), u, now, failing).threw
                  /\ wasRevoked(filedIssue)
                       => /\ update.error
                          /\ ~update.updated
                          /\ update.crl = crl
                          /\ crl' = crl
     /\ \A n \in IssueNumbers, r \in 0..(SerialSpace - 1),
           failing \in UpdateCalls \cup {"graphql"} :
          (/\ <<n, "labeled">> \in events
           /\ HandleKeyringLabeled(n, "P-256", TRUE, r, failing))
            => LET update == updateAndCommitCRL(issues', crl, now, failing)
               IN /\ issues' = keyringLabeled(issues, n, "P-256", TRUE, r, now, NoCall).ledger
                  /\ ~keyringLabeled(issues, n, "P-256", TRUE, r, now, failing).threw
                  /\ issueDeveloperCertificate(issues[n].author, r, now, n) \in certs'
                  /\ update.error
                  /\ ~update.updated
                  /\ update.crl = crl
                  /\ crl' = crl]_vars

(* A revocation has run to its end and the update of the CRL after it has *)
(* failed: the issue is closed with the label revoked and the crl.json of *)
(* the repository does not list its serial number.                        *)
C36_Witness ==
  \E n \in IssueNumbers :
    /\ issues[n].tag = "revoke"
    /\ wasRevoked(issues[n])
    /\ issues[n].state = "closed"
    /\ issues[n].reason = "completed"
    /\ \E c \in certs : c.serialNumber = extractSerialNumber(issues[n].body)
    /\ ~crlFresh
    /\ \A k \in DOMAIN crl.revokedCertificates :
          crl.revokedCertificates[k].serialNumber # extractSerialNumber(issues[n].body)

(* C37: updateAndCommitCRL called on a ledger that has not changed since  *)
(* the committed CRL was built on it finds no change, commits nothing and *)
(* returns updated = false: the crl.json of the repository stays.         *)
C37_NoCommitWithoutChange ==
  [][UpdateCRLAgain
       => /\ ~updateAndCommitCRL(issues, crl, now, NoCall).updated
          /\ crl' = crl]_vars

(* The closed, approved keyring issues of user from whose thread the      *)
(* resolver extracts a record                                             *)
recordedEntries(user) ==
  {n \in IssueNumbers :
     /\ issues[n].tag = "keyring"
     /\ issues[n].state = "closed"
     /\ "approved" \in issues[n].labels
     /\ sameUser(issues[n].author, user)
     /\ extractCertificateInfo(commentsOf(issues, n)) # None}

levelsOf(action) ==
  IF action = "auto_approve" THEN {"S", "A+", "A"}
  ELSE IF action = "auto_reject" THEN {"C+", "C"}
  ELSE {"A-", "B+", "B", "B-"}

(* C39: for every statistics input evaluateUser returns one action, and  *)
(* the action is the one of the level it reports: auto_approve exactly    *)
(* for S, A+ and A, auto_reject exactly for C+ and C, manual_review       *)
(* exactly for A-, B+, B and B-; the handler of src/keyring.js then adds  *)
(* the label approved only on auto_approve and closes the issue as        *)
(* rejected only on auto_reject.                                          *)
C39_RankActionMatchesLevel ==
  [][\A u \in Users, stats \in RankSamples :
       FileKeyringIssueByRank(u, stats, NoCall)
         => LET n == Len(issues) + 1
                evaluation == evaluateUser(stats)
            IN /\ evaluation.action \in {"auto_approve", "auto_reject", "manual_review"}
               /\ evaluation.level \in levelsOf(evaluation.action)
               /\ "approved" \in issues'[n].labels
                    <=> evaluation.action = "auto_approve"
               /\ (issues'[n].state = "closed" /\ "rejected" \in issues'[n].labels)
                    <=> evaluation.action = "auto_reject"]_vars

====
